---- MODULE Spec2Model ----
(***************************************************************************)
(* A model of the capture pipeline of misir-brimstone: the assignment      *)
(* margin service, the capture endpoint (marker hinting, legacy repair     *)
(* pass, subspace resolution), the capture handler, the artifact           *)
(* repository and the webhook dispatch; and of the webhook delivery loop,  *)
(* the subspace repository (centroid, confidence and marker weight         *)
(* operations), the search handler and the system-config cache.            *)
(*                                                                         *)
(* Conventions.  An Optional value is a sequence of length 0 (None) or 1.  *)
(* Distances, similarities and margins are integers in hundredths (1.0 is  *)
(* 100); link weights are integers in units of 0.00001 (1.0 is 100000).    *)
(* An embedding is a record [angle, dim]: a unit                           *)
(* vector at angle * 15 degrees in a fixed plane, of the given dimension;  *)
(* the cosine of two embeddings is read from CosTable.                     *)
(***************************************************************************)
EXTENDS Integers, Sequences, FiniteSets, TLC

None == << >>
Some(x) == << x >>
IsNone(o) == Len(o) = 0
IsSome(o) == Len(o) = 1
Get(o) == o[1]

\* ---------------------------------------------------------------- bounds
\* Embeddings range over the angles 0 .. MaxAngle (steps of 15 degrees).
MaxAngle == 3
\* No capture is started once MaxSignals signals are stored.
MaxSignals == 2

\* ------------------------------------------------------ program constants
One == 100
FullDim == 768
PrefilterDim == 384
DefaultMarginThreshold == 5
\* the weight 1.0 of a subspace_marker link, and one hundredth of it
FullWeight == 100000
WeightUnit == FullWeight \div One

Abs(x) == IF x < 0 THEN 0 - x ELSE x
Max(a, b) == IF a >= b THEN a ELSE b

\* cos(k * 15 degrees) in hundredths, k = 0 .. 12
CosTable == << 100, 97, 87, 71, 50, 26, 0, -26, -50, -71, -87, -97, -100 >>

Angles == 0 .. MaxAngle
Embeddings == [angle : Angles, dim : {FullDim}]
Vec(a) == [angle |-> a, dim |-> FullDim]

\* np.dot(a, b) / (norm(a) * norm(b)); defined for equal dimensions only
CosSim(a, b) == CosTable[Abs(a.angle - b.angle) + 1]
CosDistance(a, b) == One - CosSim(a, b)

\* Python's `x or d` for an Optional number: None and 0 are falsy
OrDefault(x, d) == IF IsNone(x) \/ Get(x) = 0 THEN d ELSE Get(x)

\* ------------------------------------------------------------ the world
Users == {"u1", "u2"}
\* Space 1 holds the subspaces 1 and 2, space 2 holds none; both belong to
\* u1.  Space 3 belongs to u2 and holds no subspace.
SpaceIds == {1, 2, 3}
SpaceOwner(space_id) == IF space_id = 3 THEN "u2" ELSE "u1"
SubspaceIds == {1, 2}
MarkerIds == {1, 2}
SubspaceOwner == "u1"
SubspaceSpace == 1

VARIABLES
    subspace,          \* misir.subspace: id -> [user_id, space_id, centroid_embedding]
    marker,            \* misir.marker: id -> [user_id, space_id, embedding]
    subspace_marker,   \* misir.subspace_marker: set of [subspace_id, marker_id, weight]
    artifact,          \* misir.artifact: sequence of rows, id = index
    signal,            \* misir.signal: sequence of rows, id = index
    webhook_event,     \* misir.webhook_event: sequence of rows, id = index
    delivery_tasks,    \* event ids handed to asyncio.create_task(_deliver_with_retry)
    config,            \* config_cache._cache['assignment_margin_threshold'], Optional
    mcall,             \* the last call of AssignmentMarginService.calculate_margin
    last,              \* the last capture request: its input, command and response
    deliveries,        \* _deliver_with_retry tasks: event id -> progress of the loop
    confidence,        \* misir.subspace.confidence: subspace id -> hundredths
    subspace_drift,    \* misir.subspace_drift: sequence of rows
    subspace_velocity, \* misir.subspace_velocity: sequence of rows
    ucall,             \* the last call of a SubspaceRepository operation
    repo_calls,        \* the number of SubspaceRepository operations made
    sres,              \* the last search: its command, its calls and its hits
    cc,                \* config_cache: the rest of _cache, _last_fetch, _refreshing,
                       \* the refresh tasks created and not yet run, the clock
    chist,             \* the rows of the last fetch that succeeded, and whether
                       \* a refresh has failed
    gres,              \* the last call of config_cache.get
    esvc,              \* an EmbeddingService and the threads reading its _model
    bres,              \* the last POST /artifacts/batch: request and response
    space,             \* misir.space: the rows, by id
    dres,              \* the last delete of a subspace or a space
    mrg,               \* the merge_subspace request in progress
    pend               \* a capture between its store call and its backfill

\* The embedding service is used by NumThreads threads.
NumThreads == 3
Threads == 1 .. NumThreads

\* EmbeddingService.__init__: no model, the lock free; no thread has yet
\* read the _model property
NewEmbeddingService ==
    [ model_instance |-> 0, loaded |-> FALSE, lock |-> 0, constructed |-> 0,
      pc |-> [ t \in Threads |-> "idle" ], got |-> [ t \in Threads |-> 0 ] ]

subsVars == << space, dres, mrg, pend >>
lateVars == << esvc, bres, subsVars >>

InitLate ==
    /\ esvc = NewEmbeddingService
    /\ bres = [ called |-> FALSE ]
    /\ space = [ s \in SpaceIds |-> [ user_id |-> SpaceOwner(s) ] ]
    /\ dres = [ called |-> FALSE ]
    /\ mrg = [ pc |-> "idle" ]
    /\ pend = None

\* the variables the capture endpoint and the margin service never touch
extVarsBase == << deliveries, confidence, subspace_drift, subspace_velocity,
                 ucall, repo_calls, sres, cc, chist, gres >>
extVars == << extVarsBase, lateVars >>

\* their state before any operation: a new subspace has confidence 0.0
\* (domain/entities/models.py) and no analytics rows
InitExt ==
    /\ deliveries = << >>
    /\ confidence = [ s \in SubspaceIds |-> 0 ]
    /\ subspace_drift = << >>
    /\ subspace_velocity = << >>
    /\ ucall = [ called |-> FALSE ]
    /\ repo_calls = 0
    /\ sres = [ called |-> FALSE ]
    /\ cc = [ others |-> None, last_fetch |-> None, refreshing |-> FALSE,
              tasks |-> 0, now |-> 0 ]
    /\ chist = [ populated |-> FALSE, failed |-> FALSE ]
    /\ gres = [ called |-> FALSE ]
    /\ InitLate

vars == << subspace, marker, subspace_marker, artifact, signal, webhook_event,
           delivery_tasks, config, mcall, last, extVars >>

\* --------------------------------------------------------- margin service
\* config_cache.get('assignment_margin_threshold', 0.05)
get_threshold == IF IsSome(config) THEN Get(config) ELSE DefaultMarginThreshold

\* .eq('user_id').eq('space_id').not_.is_('centroid_embedding', 'null')
Candidates(sub, user_id, space_id) ==
    { s \in SubspaceIds : /\ sub[s].user_id = user_id
                          /\ sub[s].space_id = space_id
                          /\ IsSome(sub[s].centroid_embedding) }

\* 1 - cos_sim of the signal and the centroid of subspace s
DistanceTo(sub, vec, s) == CosDistance(vec, Get(sub[s].centroid_embedding))

\* distances.sort(key=lambda x: x[1]): stable, rows in id order
NearestOf(sub, cands, vec) ==
    CHOOSE s \in cands : \A t \in cands :
        \/ DistanceTo(sub, vec, s) < DistanceTo(sub, vec, t)
        \/ DistanceTo(sub, vec, s) = DistanceTo(sub, vec, t) /\ s <= t

MarginResult(nearest, d1, d2, m, upd) ==
    [ raised |-> FALSE, nearest_subspace_id |-> nearest, nearest_distance |-> d1,
      second_distance |-> d2, margin |-> m, updates_centroid |-> upd ]

\* an exception leaving calculate_margin
MarginRaised ==
    [ raised |-> TRUE, nearest_subspace_id |-> None, nearest_distance |-> 0,
      second_distance |-> 0, margin |-> 0, updates_centroid |-> FALSE ]

calculate_margin_value(d1, d2) == d2 - d1

\* The row of the calculate_assignment_margin(_matryoshka) RPC: the margin
\* algorithm of the store, over the candidate centroids of (user, space).
RpcRow(sub, vec, user_id, space_id) ==
    LET cands == Candidates(sub, user_id, space_id)
    IN  IF cands = {}
        THEN [ nearest_subspace_id |-> None, nearest_distance |-> Some(One),
               second_distance |-> Some(One), margin |-> Some(One),
               updates_centroid |-> TRUE ]
        ELSE LET n1 == NearestOf(sub, cands, vec)
                 d1 == DistanceTo(sub, vec, n1)
             IN  IF cands = {n1}
                 THEN [ nearest_subspace_id |-> Some(n1), nearest_distance |-> Some(d1),
                        second_distance |-> Some(One), margin |-> Some(One),
                        updates_centroid |-> TRUE ]
                 ELSE LET n2 == NearestOf(sub, cands \ {n1}, vec)
                          d2 == DistanceTo(sub, vec, n2)
                      IN  [ nearest_subspace_id |-> Some(n1),
                            nearest_distance |-> Some(d1),
                            second_distance |-> Some(d2),
                            margin |-> Some(d2 - d1),
                            updates_centroid |-> (d2 - d1 >= get_threshold) ]

\* MarginResult(...) built from response.data[0]
FromRow(row) ==
    MarginResult(row.nearest_subspace_id,
                 OrDefault(row.nearest_distance, 0),
                 OrDefault(row.second_distance, One),
                 OrDefault(row.margin, One),
                 row.updates_centroid)

\* How the store answers one call of the margin service: each RPC returns a
\* row ("ok"), returns no rows ("empty") or raises ("fail"); the direct
\* subspace query succeeds or raises.
MarginEnvs == [ matryoshka : {"ok", "empty", "fail"},
                legacy : {"ok", "empty", "fail"},
                direct : BOOLEAN ]

_calculate_margin_fallback(sub, vec, user_id, space_id, threshold, env) ==
    LET cands == Candidates(sub, user_id, space_id)
    IN  IF ~ env.direct THEN MarginRaised
        ELSE IF cands = {}
        THEN MarginResult(None, One, One, One, TRUE)
        ELSE IF Cardinality(cands) = 1
        THEN MarginResult(Some(CHOOSE s \in cands : TRUE), 0, One, One, TRUE)
        ELSE IF vec.dim # FullDim THEN MarginRaised  \* np.dot: shapes not aligned
        ELSE LET n1 == NearestOf(sub, cands, vec)
                 n2 == NearestOf(sub, cands \ {n1}, vec)
                 d1 == DistanceTo(sub, vec, n1)
                 d2 == DistanceTo(sub, vec, n2)
                 m  == d2 - d1
             IN  MarginResult(Some(n1), d1, d2, m, m >= threshold)

\* _truncate_and_normalize raises ValueError when len(vector) < target_dim
TruncateRaises(vec, target_dim) == vec.dim < target_dim

\* Which path answered: "matryoshka", "legacy" or "fallback"
MarginPath(vec, env) ==
    IF ~ TruncateRaises(vec, PrefilterDim) /\ env.matryoshka = "ok" THEN "matryoshka"
    ELSE IF vec.dim = FullDim /\ env.legacy = "ok" THEN "legacy"
    ELSE "fallback"

calculate_margin(sub, vec, user_id, space_id, env) ==
    LET threshold == get_threshold
        path == MarginPath(vec, env)
    IN  IF path \in {"matryoshka", "legacy"}
        THEN FromRow(RpcRow(sub, vec, user_id, space_id))
        ELSE _calculate_margin_fallback(sub, vec, user_id, space_id, threshold, env)


\* ------------------------------------------------------------ initial state
SubspaceRow(centroid) ==
    [ user_id |-> SubspaceOwner, space_id |-> SubspaceSpace,
      centroid_embedding |-> centroid ]

OptEmbeddings == {None} \cup { Some(e) : e \in Embeddings }

\* a subspace is created with or without an initial centroid
SubspaceTables == { [ s \in SubspaceIds |-> SubspaceRow(c[s]) ] :
                        c \in [SubspaceIds -> OptEmbeddings] }

\* the embedding the model yields for the label of marker m
LabelEmbedding(m) == Vec(IF m = 1 THEN 0 ELSE MaxAngle)

MarkerRow(emb) ==
    [ user_id |-> SubspaceOwner, space_id |-> SubspaceSpace, embedding |-> emb ]

\* markers are stored with the embedding of their label, or (legacy data
\* from before marker embeddings) without
MarkerTables == { [ m \in MarkerIds |-> MarkerRow(IF withEmb
                                                  THEN Some(LabelEmbedding(m))
                                                  ELSE None) ] :
                      withEmb \in BOOLEAN }

NoCall == [ called |-> FALSE ]
NoRequest == [ called |-> FALSE ]

InitStore ==
    /\ marker \in MarkerTables
    /\ subspace_marker = { [ subspace_id |-> m, marker_id |-> m, weight |-> FullWeight ] :
                               m \in MarkerIds }
    /\ artifact = << >>
    /\ signal = << >>
    /\ webhook_event = << >>
    /\ delivery_tasks = {}
    /\ mcall = NoCall
    /\ last = NoRequest
    /\ InitExt

\* ------------------------------------------------ the margin service alone
\* a vector too short for the Matryoshka prefix and for the store
ShortVec == [ angle |-> 0, dim |-> PrefilterDim - 1 ]

InitMargin ==
    /\ InitStore
    /\ marker = [ m \in MarkerIds |-> MarkerRow(None) ]
    /\ subspace \in SubspaceTables
    /\ config \in { None, Some(3) }

\* one call of AssignmentMarginService.calculate_margin
MarginCall(vec, user_id, space_id, env) ==
    /\ ~ mcall.called
    /\ mcall' = [ called |-> TRUE, vec |-> vec, user_id |-> user_id,
                  space_id |-> space_id, env |-> env,
                  path |-> MarginPath(vec, env),
                  result |-> calculate_margin(subspace, vec, user_id, space_id, env) ]
    /\ UNCHANGED << subspace, marker, subspace_marker, artifact, signal,
                    webhook_event, delivery_tasks, config, last, extVars >>

NextMargin ==
    \E vec \in Embeddings \cup {ShortVec}, user_id \in Users,
       space_id \in SpaceIds, env \in MarginEnvs :
        MarginCall(vec, user_id, space_id, env)

SpecMargin == InitMargin /\ [][NextMargin]_vars

\* the candidate centroids of the recorded call
CallCandidates == Candidates(subspace, mcall.user_id, mcall.space_id)

\* C5: whenever the margin service returns a result computed from two or more
\* candidate centroids, updates_centroid is true exactly when the result's
\* margin is >= the configured assignment_margin_threshold, on every path.
C5_GateMatchesMargin ==
    (mcall.called /\ ~ mcall.result.raised /\ Cardinality(CallCandidates) >= 2)
        => (mcall.result.updates_centroid <=> mcall.result.margin >= get_threshold)

\* C8: with exactly one candidate centroid the result names that subspace as
\* nearest, d1 is the actual distance to its centroid, d2 = 1.0, margin = 1.0
\* and updates_centroid = true.
C8_SingleCandidate ==
    (mcall.called /\ ~ mcall.result.raised /\ Cardinality(CallCandidates) = 1)
        => LET s == CHOOSE c \in CallCandidates : TRUE
           IN  /\ mcall.result.nearest_subspace_id = Some(s)
               /\ mcall.vec.dim = FullDim =>
                      mcall.result.nearest_distance = DistanceTo(subspace, mcall.vec, s)
               /\ mcall.result.second_distance = One
               /\ mcall.result.margin = One
               /\ mcall.result.updates_centroid

\* C9: calculate_margin returns a value to its caller for every input and
\* every failure of the index or store; it never raises.
C9_NeverThrows == mcall.called => ~ mcall.result.raised

\* ---------------------------------------------------------- marker hinting
MarkerScoreThreshold == 35
TopMarkers == 8
MinLinkWeight == 10

\* embedding_score: max(0.0, _cosine_similarity(embedding, marker_embedding));
\* _cosine_similarity is 0.0 for vectors of different lengths
EmbeddingScore(mk, embedding, m) ==
    IF IsSome(mk[m].embedding) /\ Get(mk[m].embedding).dim = embedding.dim
    THEN Max(0, CosSim(embedding, Get(mk[m].embedding)))
    ELSE 0

\* final_score = max(text_score, embedding_score)
FinalScore(mk, embedding, text_score, m) ==
    Max(text_score[m], EmbeddingScore(mk, embedding, m))

RECURSIVE SumOver(_, _)
SumOver(S, f) ==
    IF S = {} THEN 0
    ELSE LET x == CHOOSE y \in S : TRUE IN f[x] + SumOver(S \ {x}, f)

NoHints == [ marker_ids |-> {}, subspace_id |-> None ]

\* _derive_marker_hints: (matched_marker_ids, inferred_subspace_id).
\* text_score[m] is the lexical score of marker m's label against the
\* title and content of the request (100 substring, 90 token subset,
\* 50 a shared token, 0 none).
_derive_marker_hints(mk, links, user_id, space_id, embedding, text_score) ==
    LET rows == { m \in MarkerIds : mk[m].space_id = space_id /\ mk[m].user_id = user_id }
        score == [ m \in MarkerIds |-> FinalScore(mk, embedding, text_score, m) ]
        scored == { m \in rows : score[m] >= MarkerScoreThreshold }
        \* marker_scores.sort(key=score, reverse=True): stable, rows in id order
        Before(k, m) == score[k] > score[m] \/ (score[k] = score[m] /\ k < m)
        Pos(m) == Cardinality({ k \in scored : Before(k, m) })
        top == { m \in scored : Pos(m) < TopMarkers }
        toplinks == { l \in links : l.marker_id \in top }
        subs == { l.subspace_id : l \in toplinks }
        contrib == [ l \in toplinks |-> score[l.marker_id] * Max(l.weight, MinLinkWeight * WeightUnit) ]
        total == [ t \in subs |->
                     SumOver({ l \in toplinks : l.subspace_id = t }, contrib) ]
        \* position at which the subspace entered the subspace_scores dict
        Rank(t) == CHOOSE r \in 0 .. Cardinality(MarkerIds) :
                     /\ \E l \in toplinks : l.subspace_id = t /\ Pos(l.marker_id) = r
                     /\ \A l \in toplinks : l.subspace_id = t => Pos(l.marker_id) >= r
        \* max(subspace_scores.items(), key=score): the first of the largest
        best == CHOOSE t \in subs : \A u \in subs :
                     \/ total[t] > total[u]
                     \/ total[t] = total[u] /\ Rank(t) < Rank(u)
                     \/ total[t] = total[u] /\ Rank(t) = Rank(u) /\ t <= u
    IN  IF rows = {} \/ scored = {} THEN NoHints
        ELSE IF subs = {} THEN [ marker_ids |-> top, subspace_id |-> None ]
        ELSE [ marker_ids |-> top, subspace_id |-> Some(best) ]

\* ------------------------------------------------------ legacy repair pass
RepairLimit == 32

\* _mean_embedding of the embeddings of the markers ms: the direction of the
\* mean of unit vectors in a plane is the mean of their angles
_mean_embedding(vecOf, ms) ==
    [ angle |-> SumOver(ms, [ m \in ms |-> vecOf[m].angle ]) \div Cardinality(ms),
      dim |-> FullDim ]

\* How the repair pass goes: "ok"; "raise", the first query or
\* get_embedding_service raises; "embed_fail", embed_text raises for every
\* label, so that only stored marker embeddings are used.
RepairModes == { "ok", "raise", "embed_fail" }

\* a faulty variant: the pass does not select the subspaces lacking a
\* centroid, it recomputes the centroid of every subspace of the space
repair_embeddings_for_space_faulty(sub, mk, links, user_id, space_id, mode) ==
    LET missing == { t \in SubspaceIds : /\ sub[t].space_id = space_id
                                         /\ sub[t].user_id = user_id }
        taken == { t \in missing :
                     Cardinality({ u \in missing : u < t }) < RepairLimit }
        MarkersOf(t) == { m \in MarkerIds :
                            /\ \E l \in links : l.subspace_id = t /\ l.marker_id = m
                            /\ mk[m].space_id = space_id
                            /\ mk[m].user_id = user_id }
        Usable(t) == { m \in MarkersOf(t) : IsSome(mk[m].embedding) \/ mode = "ok" }
        vecOf == [ m \in MarkerIds |-> IF IsSome(mk[m].embedding)
                                      THEN Get(mk[m].embedding)
                                      ELSE LabelEmbedding(m) ]
        generated == { m \in MarkerIds : /\ IsNone(mk[m].embedding)
                                         /\ mode = "ok"
                                         /\ \E t \in taken : m \in MarkersOf(t) }
    IN  IF missing = {} \/ mode = "raise"
        THEN [ sub |-> sub, mk |-> mk ]
        ELSE [ sub |-> [ t \in SubspaceIds |->
                          IF t \in taken /\ Usable(t) # {}
                          THEN [ sub[t] EXCEPT !.centroid_embedding =
                                     Some(_mean_embedding(vecOf, Usable(t))) ]
                          ELSE sub[t] ],
               mk |-> [ m \in MarkerIds |->
                          IF m \in generated
                          THEN [ mk[m] EXCEPT !.embedding = Some(LabelEmbedding(m)) ]
                          ELSE mk[m] ] ]

\* _repair_embeddings_for_space: the subspace and marker tables afterwards
_repair_embeddings_for_space(sub, mk, links, user_id, space_id, mode) ==
    LET missing == { t \in SubspaceIds : /\ sub[t].space_id = space_id
                                         /\ sub[t].user_id = user_id
                                         /\ IsNone(sub[t].centroid_embedding) }
        \* missing_centroids[:32], rows in id order
        taken == { t \in missing :
                     Cardinality({ u \in missing : u < t }) < RepairLimit }
        MarkersOf(t) == { m \in MarkerIds :
                            /\ \E l \in links : l.subspace_id = t /\ l.marker_id = m
                            /\ mk[m].space_id = space_id
                            /\ mk[m].user_id = user_id }
        Usable(t) == { m \in MarkersOf(t) : IsSome(mk[m].embedding) \/ mode = "ok" }
        vecOf == [ m \in MarkerIds |-> IF IsSome(mk[m].embedding)
                                      THEN Get(mk[m].embedding)
                                      ELSE LabelEmbedding(m) ]
        generated == { m \in MarkerIds : /\ IsNone(mk[m].embedding)
                                         /\ mode = "ok"
                                         /\ \E t \in taken : m \in MarkersOf(t) }
    IN  IF missing = {} \/ mode = "raise"
        THEN [ sub |-> sub, mk |-> mk ]
        ELSE [ sub |-> [ t \in SubspaceIds |->
                          IF t \in taken /\ Usable(t) # {}
                          THEN [ sub[t] EXCEPT !.centroid_embedding =
                                     Some(_mean_embedding(vecOf, Usable(t))) ]
                          ELSE sub[t] ],
               mk |-> [ m \in MarkerIds |->
                          IF m \in generated
                          THEN [ mk[m] EXCEPT !.embedding = Some(LabelEmbedding(m)) ]
                          ELSE mk[m] ] ]

\* ------------------------------------------------------ engagement lattice
\* EngagementLevel.__gt__: order = ['latent', 'discovered', 'engaged', 'saturated']
EngagementOrder == << "latent", "discovered", "engaged", "saturated" >>
EngagementLevels == { EngagementOrder[i] : i \in DOMAIN EngagementOrder }
LevelIndex(level) == CHOOSE i \in DOMAIN EngagementOrder : EngagementOrder[i] = level
LevelGt(a, b) == LevelIndex(a) > LevelIndex(b)

\* a faulty variant: "discovered" is taken for an unknown value
normalize_engagement_level_faulty(level) ==
    IF level \in { "latent", "engaged", "saturated" } THEN level
    ELSE IF level = "ambient" THEN "latent"
    ELSE IF level = "active" THEN "engaged"
    ELSE IF level = "committed" THEN "saturated"
    ELSE "latent"

\* _normalize_engagement_level: legacy and unknown client values
_normalize_engagement_level(level) ==
    IF level \in { "latent", "discovered", "engaged", "saturated" } THEN level
    ELSE IF level = "ambient" THEN "latent"
    ELSE IF level = "active" THEN "engaged"
    ELSE IF level = "committed" THEN "saturated"
    ELSE "latent"

\* ------------------------------------------------- the store's atomic ingest
TrackedUrl == "a?utm_source=x"
\* URL normalization of the store: tracking parameters stripped
NormalizeUrl(url) == IF url = TrackedUrl THEN "a" ELSE url

\* the step of the store's EMA update of a centroid towards a signal
EmaUpdate(centroid, vec) ==
    IF IsNone(centroid) THEN Some(vec)
    ELSE LET c == Get(centroid)
         IN  Some([ c EXCEPT !.angle = IF vec.angle > @ THEN @ + 1
                                       ELSE IF vec.angle < @ THEN @ - 1 ELSE @ ])

\* the engagement level an upsert keeps: upgrade only
UpsertLevel(old, new) == IF LevelGt(new, old) THEN new ELSE old

\* the store rejects the call: wrong embedding dimension, unknown subspace
RpcRejects(sub, p) ==
    \/ p.embedding.dim # FullDim
    \/ SpaceOwner(p.space_id) # p.user_id
    \/ IsSome(p.subspace_id) /\ Get(p.subspace_id) \notin DOMAIN sub
    \/ /\ IsSome(p.subspace_id) /\ Get(p.subspace_id) \in DOMAIN sub
       /\ \/ sub[Get(p.subspace_id)].user_id # p.user_id
          \/ sub[Get(p.subspace_id)].space_id # p.space_id

\* misir.insert_artifact_with_signal: URL normalization, upsert on
\* (user_id, normalized_url), upgrade-only engagement, signal insert and,
\* when p_updates_centroid, the EMA update of the subspace centroid
insert_artifact_with_signal(art, sig, sub, p) ==
    LET nurl == NormalizeUrl(p.url)
        existing == { i \in DOMAIN art : /\ art[i].user_id = p.user_id
                                         /\ art[i].normalized_url = nurl }
        is_new == existing = {}
        aid == IF is_new THEN Len(art) + 1 ELSE CHOOSE i \in existing : TRUE
        art2 == IF is_new
                THEN Append(art, [ user_id |-> p.user_id, normalized_url |-> nurl,
                                   space_id |-> p.space_id,
                                   subspace_id |-> p.subspace_id,
                                   engagement_level |-> p.engagement_level,
                                   matched_marker_ids |-> p.matched_marker_ids,
                                   deleted |-> FALSE ])
                ELSE [ art EXCEPT ![aid].engagement_level =
                                      UpsertLevel(@, p.engagement_level) ]
        sig2 == Append(sig, [ artifact_id |-> aid, user_id |-> p.user_id,
                              space_id |-> p.space_id, subspace_id |-> p.subspace_id,
                              vector |-> p.embedding, margin |-> p.margin,
                              updates_centroid |-> p.updates_centroid,
                              deleted |-> FALSE ])
        sub2 == IF p.updates_centroid /\ IsSome(p.subspace_id)
                THEN [ sub EXCEPT ![Get(p.subspace_id)].centroid_embedding =
                                      EmaUpdate(@, p.embedding) ]
                ELSE sub
    IN  [ art |-> art2, sig |-> sig2, sub |-> sub2,
          row |-> [ artifact_id |-> aid, signal_id |-> Len(sig2), is_new |-> is_new ] ]

\* ------------------------------------------------------ artifact repository
\* _backfill_assignment_fields: best effort, exceptions are swallowed
_backfill_assignment_fields(art, artifact_id, user_id, subspace_id, marker_ids, ok) ==
    LET setSub == IsSome(subspace_id) /\ Get(subspace_id) > 0
        setIds == marker_ids # {}
    IN  IF ~ ok \/ (~ setSub /\ ~ setIds) \/ art[artifact_id].user_id # user_id
        THEN art
        ELSE [ art EXCEPT ![artifact_id] =
                 [ @ EXCEPT !.subspace_id = IF setSub THEN subspace_id ELSE @,
                            !.matched_marker_ids = IF setIds THEN marker_ids ELSE @ ] ]

IngestErr(art, sig, sub) ==
    [ ok |-> FALSE, art |-> art, sig |-> sig, sub |-> sub,
      artifact_id |-> 0, signal_id |-> 0, is_new |-> FALSE ]

\* a faulty variant: the CaptureResult always reports a new artifact
ingest_with_signal_faulty(art, sig, sub, cmd, store_ok, backfill_ok) ==
    LET params == [ user_id |-> cmd.user_id, space_id |-> cmd.space_id,
                    url |-> cmd.url, embedding |-> cmd.embedding,
                    subspace_id |-> cmd.subspace_id,
                    engagement_level |->
                        _normalize_engagement_level(cmd.engagement_level),
                    matched_marker_ids |-> cmd.matched_marker_ids,
                    margin |-> cmd.margin,
                    updates_centroid |-> cmd.updates_centroid ]
        rpc == insert_artifact_with_signal(art, sig, sub, params)
    IN  IF ~ store_ok \/ RpcRejects(sub, params)
        THEN IngestErr(art, sig, sub)
        ELSE [ ok |-> TRUE,
               art |-> _backfill_assignment_fields(rpc.art, rpc.row.artifact_id,
                           cmd.user_id, cmd.subspace_id, cmd.matched_marker_ids,
                           backfill_ok),
               sig |-> rpc.sig, sub |-> rpc.sub,
               artifact_id |-> rpc.row.artifact_id,
               signal_id |-> rpc.row.signal_id,
               is_new |-> TRUE ]

\* ArtifactRepository.ingest_with_signal: Ok(CaptureResult) or Err
ingest_with_signal(art, sig, sub, cmd, store_ok, backfill_ok) ==
    LET params == [ user_id |-> cmd.user_id, space_id |-> cmd.space_id,
                    url |-> cmd.url, embedding |-> cmd.embedding,
                    subspace_id |-> cmd.subspace_id,
                    engagement_level |->
                        _normalize_engagement_level(cmd.engagement_level),
                    matched_marker_ids |-> cmd.matched_marker_ids,
                    margin |-> cmd.margin,
                    updates_centroid |-> cmd.updates_centroid ]
        rpc == insert_artifact_with_signal(art, sig, sub, params)
    IN  IF ~ store_ok \/ RpcRejects(sub, params)
        THEN IngestErr(art, sig, sub)
        ELSE [ ok |-> TRUE,
               art |-> _backfill_assignment_fields(rpc.art, rpc.row.artifact_id,
                           cmd.user_id, cmd.subspace_id, cmd.matched_marker_ids,
                           backfill_ok),
               sig |-> rpc.sig, sub |-> rpc.sub,
               artifact_id |-> rpc.row.artifact_id,
               signal_id |-> rpc.row.signal_id,
               is_new |-> rpc.row.is_new ]

\* ---------------------------------------------------------- webhook dispatch
WebhookSubscriptions ==
    { [ id |-> 1, user_id |-> "u1", is_active |-> TRUE,
        events |-> { "artifact.created", "artifact.updated" } ],
      [ id |-> 2, user_id |-> "u2", is_active |-> TRUE,
        events |-> { "artifact.created" } ] }

\* How the dispatch goes: "ok"; "ctor_fail", WebhookService() raises;
\* "subs_fail", the subscription query raises; "create_fail", the insert of
\* the webhook_event row raises; "deliver_fail", the events are created and
\* every delivery attempt of the detached task fails.
WebhookModes == { "ok", "ctor_fail", "subs_fail", "create_fail", "deliver_fail" }

RECURSIVE CreateEvents(_, _, _, _)
\* the loop of dispatch_event over the matching subscriptions, in id order
CreateEvents(ev, subs, event_type, artifact_id) ==
    IF subs = {} THEN ev
    ELSE LET s == CHOOSE x \in subs : \A y \in subs : x.id <= y.id
         IN  CreateEvents(Append(ev, [ subscription_id |-> s.id,
                                       event_type |-> event_type,
                                       artifact_id |-> artifact_id,
                                       status |-> "pending", attempts |-> 0 ]),
                          subs \ {s}, event_type, artifact_id)

\* WebhookService.dispatch_event: the webhook_event table and the delivery
\* tasks afterwards
dispatch_event(ev, tasks, user_id, event_type, artifact_id, mode) ==
    LET subs == { s \in WebhookSubscriptions :
                    s.user_id = user_id /\ s.is_active /\ event_type \in s.events }
        ev2 == CreateEvents(ev, subs, event_type, artifact_id)
    IN  IF mode \in { "subs_fail", "create_fail" } THEN [ ev |-> ev, tasks |-> tasks ]
        ELSE [ ev |-> ev2, tasks |-> tasks \cup (Len(ev) + 1 .. Len(ev2)) ]

\* ------------------------------------------------------------ capture handler
\* a faulty variant: a failed webhook dispatch turns the result into an error
HandleOk_faulty(ev, tasks, cmd, result, webhook) ==
    LET event_type == IF result.is_new THEN "artifact.created" ELSE "artifact.updated"
        hook == IF webhook = "ctor_fail"
                THEN [ ev |-> ev, tasks |-> tasks ]
                ELSE dispatch_event(ev, tasks, cmd.user_id, event_type,
                                    result.artifact_id, webhook)
    IN  [ ok |-> webhook = "ok", art |-> result.art, sig |-> result.sig,
          sub |-> result.sub, ev |-> hook.ev, tasks |-> hook.tasks,
          artifact_id |-> result.artifact_id, signal_id |-> result.signal_id,
          is_new |-> result.is_new ]

\* step 5 of handle: the webhook for an artifact the repository ingested
HandleOk(ev, tasks, cmd, result, webhook) ==
    LET event_type == IF result.is_new THEN "artifact.created" ELSE "artifact.updated"
        hook == IF webhook = "ctor_fail"
                THEN [ ev |-> ev, tasks |-> tasks ]
                ELSE dispatch_event(ev, tasks, cmd.user_id, event_type,
                                    result.artifact_id, webhook)
    IN  [ ok |-> TRUE, art |-> result.art, sig |-> result.sig, sub |-> result.sub,
          ev |-> hook.ev, tasks |-> hook.tasks,
          artifact_id |-> result.artifact_id, signal_id |-> result.signal_id,
          is_new |-> result.is_new ]

\* a faulty variant: the webhook is dispatched whatever the repository returned
handle_faulty(art, sig, sub, ev, tasks, cmd, store_ok, backfill_ok, webhook) ==
    LET result == ingest_with_signal(art, sig, sub, cmd, store_ok, backfill_ok)
        h == HandleOk(ev, tasks, cmd, result, webhook)
    IN  IF ~ result.ok
        THEN [ ok |-> FALSE, art |-> art, sig |-> sig, sub |-> sub,
               ev |-> h.ev, tasks |-> h.tasks,
               artifact_id |-> 0, signal_id |-> 0, is_new |-> FALSE ]
        ELSE h

\* CaptureHandler.handle: Result[CaptureResult, ErrorDetail] and the store
handle(art, sig, sub, ev, tasks, cmd, store_ok, backfill_ok, webhook) ==
    LET result == ingest_with_signal(art, sig, sub, cmd, store_ok, backfill_ok)
    IN  IF ~ result.ok
        THEN [ ok |-> FALSE, art |-> art, sig |-> sig, sub |-> sub,
               ev |-> ev, tasks |-> tasks,
               artifact_id |-> 0, signal_id |-> 0, is_new |-> FALSE ]
        ELSE HandleOk(ev, tasks, cmd, result, webhook)

\* ----------------------------------------------------------- capture endpoint
\* the resolved assignment and where it came from: "client", "margin" (the
\* nearest subspace of the margin service), "marker" (marker hinting), "none"
Resolution(sid, margin, upd, source) ==
    [ subspace_id |-> sid, margin |-> margin, updates_centroid |-> upd,
      source |-> source ]

\* a faulty variant: the marker fallback keeps the client's updates_centroid
FirstPass_faulty(body, hint_sub, mr) ==
    LET r0 == Resolution(body.subspace_id, body.margin, body.updates_centroid,
                         IF IsSome(body.subspace_id) THEN "client" ELSE "none")
        r1 == IF IsNone(body.subspace_id)
              THEN IF ~ mr.raised /\ IsSome(mr.nearest_subspace_id)
                   THEN IF ~ mr.updates_centroid /\ IsSome(hint_sub)
                        THEN Resolution(hint_sub, Some(mr.margin),
                                        mr.updates_centroid, "marker")
                        ELSE Resolution(mr.nearest_subspace_id, Some(mr.margin),
                                        mr.updates_centroid, "margin")
                   ELSE r0
              ELSE IF IsSome(hint_sub) /\ Get(body.subspace_id) <= 0
                   THEN Resolution(hint_sub, body.margin, FALSE, "marker")
                   ELSE r0
    IN  IF IsNone(r1.subspace_id) /\ IsSome(hint_sub)
        THEN Resolution(hint_sub, r1.margin, r1.updates_centroid, "marker")
        ELSE r1

\* capture_artifact, first resolution pass: margin service, then marker hints
FirstPass(body, hint_sub, mr) ==
    LET r0 == Resolution(body.subspace_id, body.margin, body.updates_centroid,
                         IF IsSome(body.subspace_id) THEN "client" ELSE "none")
        r1 == IF IsNone(body.subspace_id)
              THEN IF ~ mr.raised /\ IsSome(mr.nearest_subspace_id)
                   THEN IF ~ mr.updates_centroid /\ IsSome(hint_sub)
                        THEN Resolution(hint_sub, Some(mr.margin),
                                        mr.updates_centroid, "marker")
                        ELSE Resolution(mr.nearest_subspace_id, Some(mr.margin),
                                        mr.updates_centroid, "margin")
                   ELSE r0
              ELSE IF IsSome(hint_sub) /\ Get(body.subspace_id) <= 0
                   THEN Resolution(hint_sub, body.margin, FALSE, "marker")
                   ELSE r0
    IN  IF IsNone(r1.subspace_id) /\ IsSome(hint_sub)
        THEN Resolution(hint_sub, r1.margin, FALSE, "marker")
        ELSE r1

\* capture_artifact, the retry after the repair pass: marker hints first,
\* then the margin service
RetryPass(r, hint_sub, mr) ==
    LET r1 == IF IsSome(hint_sub)
              THEN Resolution(hint_sub, r.margin, FALSE, "marker")
              ELSE r
    IN  IF IsNone(r1.subspace_id) /\ ~ mr.raised /\ IsSome(mr.nearest_subspace_id)
        THEN Resolution(mr.nearest_subspace_id, Some(mr.margin),
                        mr.updates_centroid, "margin")
        ELSE r1

\* CaptureArtifactCommand.__post_init__ raises ValueError
CommandInvalid(url) == url = ""

ZeroScores == [ m \in MarkerIds |-> 0 ]

\* capture_artifact up to the command: embedding, marker hints, subspace
\* resolution and the repair pass
ResolveRequest(st, user_id, body, env) ==
    LET needEmbed == IsNone(body.embedding)
        embedding == IF needEmbed THEN Get(env.embed) ELSE Get(body.embedding)
        scores == IF body.has_text THEN body.text_score ELSE ZeroScores
        hints1 == IF env.hints1_ok
                  THEN _derive_marker_hints(st.mk, st.links, user_id, body.space_id,
                                            embedding, scores)
                  ELSE NoHints
        mr1 == calculate_margin(st.sub, embedding, user_id, body.space_id, env.margin1)
        r1 == FirstPass(body, hints1.subspace_id, mr1)
        unresolved == IsNone(r1.subspace_id)
        repaired == IF unresolved
                    THEN _repair_embeddings_for_space(st.sub, st.mk, st.links,
                                                      user_id, body.space_id, env.repair)
                    ELSE [ sub |-> st.sub, mk |-> st.mk ]
        hints2 == IF unresolved /\ env.hints2_ok
                  THEN _derive_marker_hints(repaired.mk, st.links, user_id,
                                            body.space_id, embedding, scores)
                  ELSE NoHints
        mr2 == calculate_margin(repaired.sub, embedding, user_id, body.space_id,
                                env.margin2)
        r2 == IF unresolved THEN RetryPass(r1, hints2.subspace_id, mr2) ELSE r1
    IN  [ sub |-> repaired.sub, mk |-> repaired.mk, source |-> r2.source,
          cmd |-> [ user_id |-> user_id, space_id |-> body.space_id,
                    url |-> body.url, embedding |-> embedding,
                    engagement_level |-> body.engagement_level,
                    subspace_id |-> r2.subspace_id,
                    matched_marker_ids |-> hints1.marker_ids \cup hints2.marker_ids,
                    margin |-> r2.margin,
                    updates_centroid |-> r2.updates_centroid ] ]

\* the record of a request: its input, the command handed to the handler
\* (res) and the response (rsp)
RequestRecord(st, user_id, body, env, res, rsp) ==
    [ called |-> TRUE, user_id |-> user_id, url |-> body.url,
      space_id |-> body.space_id, engagement_level |-> body.engagement_level,
      client_subspace_id |-> body.subspace_id, client_margin |-> body.margin,
      client_updates_centroid |-> body.updates_centroid,
      pre_art |-> st.art, pre_sub |-> st.sub, mid_sub |-> res.sub,
      pre_signals |-> Len(st.sig), pre_events |-> Len(st.ev),
      webhook |-> env.webhook,
      handed |-> rsp.handed, source |-> res.source,
      cmd_subspace_id |-> res.cmd.subspace_id,
      cmd_margin |-> res.cmd.margin,
      cmd_updates_centroid |-> res.cmd.updates_centroid,
      persisted |-> rsp.status = 200, status |-> rsp.status,
      is_new |-> rsp.is_new, artifact_id |-> rsp.artifact_id ]

\* the response to a request that did not succeed
Problem(status, handed) ==
    [ status |-> status, handed |-> handed, is_new |-> FALSE, artifact_id |-> 0 ]

\* capture_artifact from the command on: CaptureArtifactCommand(...),
\* handler.handle(cmd) and the response
FinishRequest(st, user_id, body, env, res) ==
    LET h == handle(st.art, st.sig, res.sub, st.ev, st.tasks, res.cmd,
                    env.store_ok, env.backfill_ok, env.webhook)
    IN  IF CommandInvalid(body.url)
        THEN [ sub |-> res.sub, mk |-> res.mk, art |-> st.art, sig |-> st.sig,
               ev |-> st.ev, tasks |-> st.tasks,
               last |-> RequestRecord(st, user_id, body, env, res,
                                      Problem(500, FALSE)) ]
        ELSE [ sub |-> h.sub, mk |-> res.mk, art |-> h.art, sig |-> h.sig,
               ev |-> h.ev, tasks |-> h.tasks,
               last |-> RequestRecord(st, user_id, body, env, res,
                           IF h.ok
                           THEN [ status |-> 200, handed |-> TRUE,
                                  is_new |-> h.is_new,
                                  artifact_id |-> h.artifact_id ]
                           ELSE Problem(500, TRUE)) ]

\* capture_artifact: the whole request.  st is the store before it; the
\* result carries the store after it and the record of the request.
capture_artifact(st, user_id, body, env) ==
    LET needEmbed == IsNone(body.embedding)
        rejected == needEmbed /\ ~ body.has_text
        embedFails == needEmbed /\ body.has_text /\ IsNone(env.embed)
        unresolved == [ sub |-> st.sub, source |-> "none",
                        cmd |-> [ subspace_id |-> None, margin |-> None,
                                  updates_centroid |-> FALSE ] ]
    IN  IF rejected \/ embedFails
        THEN [ sub |-> st.sub, mk |-> st.mk, art |-> st.art, sig |-> st.sig,
               ev |-> st.ev, tasks |-> st.tasks,
               last |-> RequestRecord(st, user_id, body, env, unresolved,
                           Problem(IF rejected THEN 400 ELSE 500, FALSE)) ]
        ELSE FinishRequest(st, user_id, body, env,
                           ResolveRequest(st, user_id, body, env))

Store == [ sub |-> subspace, mk |-> marker, links |-> subspace_marker,
           art |-> artifact, sig |-> signal, ev |-> webhook_event,
           tasks |-> delivery_tasks ]

\* POST /artifacts/capture
Capture(user_id, body, env) ==
    /\ Len(signal) < MaxSignals
    /\ \E out \in { capture_artifact(Store, user_id, body, env) } :
           /\ subspace' = out.sub
           /\ marker' = out.mk
           /\ artifact' = out.art
           /\ signal' = out.sig
           /\ webhook_event' = out.ev
           /\ delivery_tasks' = out.tasks
           /\ last' = out.last
    /\ UNCHANGED << subspace_marker, config, mcall, extVars >>

\* ------------------------------------------------------------ request inputs
Body(space_id, url, embedding, has_text, text_score, level, sid, margin, upd) ==
    [ space_id |-> space_id, url |-> url, embedding |-> embedding,
      has_text |-> has_text, text_score |-> text_score,
      engagement_level |-> level, subspace_id |-> sid, margin |-> margin,
      updates_centroid |-> upd ]

RpcOk == [ matryoshka |-> "ok", legacy |-> "ok", direct |-> TRUE ]
RpcDown == [ matryoshka |-> "fail", legacy |-> "fail", direct |-> TRUE ]
StoreDown == [ matryoshka |-> "fail", legacy |-> "fail", direct |-> FALSE ]

\* everything the request depends on works
CalmEnv ==
    [ embed |-> Some(Vec(1)), hints1_ok |-> TRUE, hints2_ok |-> TRUE,
      margin1 |-> RpcOk, margin2 |-> RpcOk, repair |-> "ok",
      store_ok |-> TRUE, backfill_ok |-> TRUE, webhook |-> "ok" ]

\* ------------------------------------------- repeated captures of a few URLs
RawLevels == { "latent", "discovered", "engaged", "saturated", "active" }

InitIngest ==
    /\ InitStore
    /\ marker = [ m \in MarkerIds |-> MarkerRow(Some(LabelEmbedding(m))) ]
    /\ subspace = [ s \in SubspaceIds |-> SubspaceRow(Some(LabelEmbedding(s))) ]
    /\ config = None

NextIngest ==
    \E user_id \in Users, url \in { "a", TrackedUrl, "b" }, level \in RawLevels,
       store_ok \in BOOLEAN :
        Capture(user_id,
                Body(IF user_id = "u1" THEN 1 ELSE 3, url, Some(Vec(0)), FALSE,
                     ZeroScores, level, None, None, TRUE),
                [ CalmEnv EXCEPT !.store_ok = store_ok ])

SpecIngest == InitIngest /\ [][NextIngest]_vars

\* the live artifact rows of (user_id, normalized url)
RowsOf(art, user_id, nurl) ==
    { i \in DOMAIN art : art[i].user_id = user_id /\ art[i].normalized_url = nurl }

LatticeMax(a, b) == IF LevelIndex(a) >= LevelIndex(b) THEN a ELSE b

\* C1: after each capture of a URL the stored engagement_level is the lattice
\* maximum of the level stored before and the level submitted (the level
\* submitted alone for a new artifact); it is never downgraded.
C1_EngagementMax ==
    (last.called /\ last.persisted /\ last.engagement_level \in EngagementLevels)
        => LET nurl == NormalizeUrl(last.url)
               before == RowsOf(last.pre_art, last.user_id, nurl)
               stored == artifact[last.artifact_id].engagement_level
           IN  /\ last.artifact_id \in RowsOf(artifact, last.user_id, nurl)
               /\ stored = IF before = {} THEN last.engagement_level
                           ELSE LatticeMax(
                                  last.pre_art[CHOOSE i \in before : TRUE].engagement_level,
                                  last.engagement_level)

\* a capture met a stored level higher than the one it submitted
C1_Witness ==
    /\ last.called /\ last.persisted /\ last.engagement_level \in EngagementLevels
    /\ \E i \in RowsOf(last.pre_art, last.user_id, NormalizeUrl(last.url)) :
          /\ LevelGt(last.pre_art[i].engagement_level, last.engagement_level)
          /\ artifact[i].engagement_level = last.pre_art[i].engagement_level

\* C2: the first capture of a URL by a user returns is_new = true, a second
\* capture of the same URL returns is_new = false, and exactly one artifact
\* row exists for (user_id, normalized_url) afterwards.
C2_IsNewThenNot ==
    (last.called /\ last.persisted)
        => LET nurl == NormalizeUrl(last.url)
               before == RowsOf(last.pre_art, last.user_id, nurl)
           IN  /\ last.is_new <=> before = {}
               /\ Cardinality(RowsOf(artifact, last.user_id, nurl)) = 1

\* the second capture of a URL has been answered
C2_Witness ==
    /\ last.called /\ last.persisted /\ ~ last.is_new
    /\ Len(signal) = 2 /\ Len(artifact) = 1

\* ------------------------------------------- captures and their webhooks
NextHook ==
    \E user_id \in Users, url \in { "a", "b" }, store_ok \in BOOLEAN,
       webhook \in WebhookModes :
        Capture(user_id,
                Body(IF user_id = "u1" THEN 1 ELSE 3, url, Some(Vec(0)), FALSE,
                     ZeroScores, "latent", None, None, TRUE),
                [ CalmEnv EXCEPT !.store_ok = store_ok, !.webhook = webhook ])

SpecHook == InitIngest /\ [][NextHook]_vars

\* the store persisted the signal of the last request
StorePersisted == last.called /\ Len(signal) = last.pre_signals + 1

\* C10: if the store persisted the capture, the capture returns success
\* whatever failed in webhook dispatch.
C10_WebhookNeverFails == StorePersisted => last.status = 200

\* a persisted capture whose webhook dispatch failed was answered
C10_Witness ==
    /\ StorePersisted /\ last.status = 200
    /\ last.webhook # "ok"
    /\ Len(webhook_event) = last.pre_events

\* the webhook events created since the last request began
NewEvents == last.pre_events + 1 .. Len(webhook_event)

\* C26: a request creates webhook events only when the store's ingest
\* returned success for it, and then for the artifact the ingest returned,
\* already stored; after an ingest error no webhook event is created.
C26_WebhookAfterIngest ==
    last.called =>
        /\ ~ StorePersisted => NewEvents = {}
        /\ \A k \in NewEvents :
               /\ StorePersisted
               /\ webhook_event[k].artifact_id = last.artifact_id
               /\ last.artifact_id \in DOMAIN artifact
               /\ webhook_event[k].event_type =
                      IF last.is_new THEN "artifact.created" ELSE "artifact.updated"
               /\ k \in delivery_tasks

\* a request whose ingest succeeded and created an event, followed by a
\* later request whose ingest failed and created none
C26_Witness ==
    /\ last.called /\ last.handed /\ ~ StorePersisted
    /\ NewEvents = {} /\ Len(webhook_event) > 0

\* ------------------------------------------------- subspace assignment
\* subspaces with their centroids, or (legacy) without
InitAssign ==
    /\ InitStore
    /\ subspace \in { [ s \in SubspaceIds |->
                           SubspaceRow(IF s \in withC THEN Some(Vec(s - 1)) ELSE None) ] :
                       withC \in SUBSET SubspaceIds }
    /\ config = None

HitScores(hit) == [ m \in MarkerIds |-> IF hit /\ m = 1 THEN One ELSE 0 ]

\* requests that differ in what the client supplies and what the text and
\* the vector match; the margin service is called only without a client
\* subspace_id
CaptureResolve ==
    \E space_id \in { 1, 2 }, sid \in { None, Some(0), Some(1) }, upd \in BOOLEAN,
       hit \in BOOLEAN, a \in { 0, MaxAngle } :
        \E menv \in IF IsNone(sid) THEN { RpcOk, RpcDown } ELSE { RpcOk } :
            Capture("u1",
                    Body(space_id, "a", Some(Vec(a)), hit, HitScores(hit), "latent",
                         sid, None, upd),
                    [ CalmEnv EXCEPT !.margin1 = menv, !.margin2 = menv ])

\* how a request ends once the subspace is resolved: "ok"; "store_fail", the
\* ingest RPC fails; "invalid", the command is rejected at construction
Endings == { "ok", "store_fail", "invalid" }

\* requests during which a dependency fails
CaptureFailing ==
    \E ending \in Endings, repair \in RepairModes, degraded \in BOOLEAN :
        Capture("u1",
                Body(1, IF ending = "invalid" THEN "" ELSE "a", Some(Vec(0)), FALSE,
                     ZeroScores, "latent", None, None, TRUE),
                [ CalmEnv EXCEPT !.store_ok = (ending # "store_fail"),
                                 !.repair = repair,
                                 !.hints1_ok = ~ degraded,
                                 !.margin1 = IF degraded THEN StoreDown ELSE RpcOk ])

\* requests without an embedding, or with one of the wrong length
CaptureEmbedding ==
    \E embedding \in { None, Some(ShortVec) }, has_text \in BOOLEAN,
       embed \in { None, Some(Vec(1)) } :
        Capture("u1",
                Body(1, "a", embedding, has_text, ZeroScores, "latent",
                     None, None, TRUE),
                [ CalmEnv EXCEPT !.embed = embed ])

Next == CaptureResolve \/ CaptureFailing \/ CaptureEmbedding

Spec == InitAssign /\ [][Next]_vars

Centroids(sub) == [ s \in SubspaceIds |-> sub[s].centroid_embedding ]

\* the signal the last request persisted
LastSignal == signal[Len(signal)]

\* C3 as stated: for a capture whose persisted signal carries
\* updates_centroid = false, the centroid of every subspace is identical
\* before and after the whole request.
C3_NoCentroidWritten ==
    (StorePersisted /\ ~ LastSignal.updates_centroid)
        => Centroids(subspace) = Centroids(last.pre_sub)

\* C3 amended: for a capture whose persisted signal carries
\* updates_centroid = false, the ingest writes no centroid, and every centroid
\* that was set before the request is identical after it; only the repair
\* pass may have filled centroids that were null.
C3_GateKeepsCentroids ==
    (StorePersisted /\ ~ LastSignal.updates_centroid)
        => /\ Centroids(subspace) = Centroids(last.mid_sub)
           /\ \A s \in SubspaceIds :
                  IsSome(last.pre_sub[s].centroid_embedding)
                      => subspace[s].centroid_embedding
                             = last.pre_sub[s].centroid_embedding

\* a gated signal was persisted to a subspace whose centroid was set, in a
\* request whose repair pass filled another centroid
C3_Witness ==
    /\ StorePersisted /\ ~ LastSignal.updates_centroid
    /\ IsSome(LastSignal.subspace_id)
    /\ \E s \in SubspaceIds : IsSome(last.pre_sub[s].centroid_embedding)
    /\ \E s \in SubspaceIds : /\ IsNone(last.pre_sub[s].centroid_embedding)
                               /\ IsSome(subspace[s].centroid_embedding)

\* C4: a capture request that ends in an error has persisted no artifact and
\* changed no centroid.
C4_ErrorLeavesStore ==
    (last.called /\ last.status # 200)
        => /\ artifact = last.pre_art
           /\ Centroids(subspace) = Centroids(last.pre_sub)

\* C6: a capture whose subspace was chosen by marker hinting is handed to the
\* store with updates_centroid = false.
C6_MarkerHintGated ==
    (last.called /\ last.handed /\ last.source = "marker")
        => /\ ~ last.cmd_updates_centroid
           /\ StorePersisted => ~ LastSignal.updates_centroid

\* a marker-hinted capture of a client that asked for a centroid update was
\* persisted
C6_Witness ==
    /\ StorePersisted /\ last.source = "marker"
    /\ last.client_updates_centroid
    /\ IsSome(LastSignal.subspace_id)
    /\ ~ LastSignal.updates_centroid

\* the space of the last request has no subspaces
EmptySpace == \A s \in SubspaceIds : subspace[s].space_id # last.space_id

\* C7: a capture without client subspace_id or margin (and updates_centroid
\* left at its default, true) into a space without subspaces creates no
\* subspace and hands the store subspace_id = null, margin = 1.0 and
\* updates_centroid = true.
C7_BootstrapEmptySpace ==
    (/\ last.called /\ last.handed /\ EmptySpace
     /\ IsNone(last.client_subspace_id) /\ IsNone(last.client_margin)
     /\ last.client_updates_centroid)
        => /\ last.cmd_subspace_id = None
           /\ last.cmd_margin = Some(One)
           /\ last.cmd_updates_centroid

\* ------------------------------------------------------- webhook delivery
MAX_RETRIES == 5
INITIAL_RETRY_DELAY == 1
MAX_RETRY_DELAY == 300

RECURSIVE Pow2(_)
Pow2(n) == IF n = 0 THEN 1 ELSE 2 * Pow2(n - 1)

\* a faulty variant: the exponent is the number of the coming attempt
RetryDelay_faulty(attempt) ==
    IF INITIAL_RETRY_DELAY * Pow2(attempt + 1) <= MAX_RETRY_DELAY
    THEN INITIAL_RETRY_DELAY * Pow2(attempt + 1)
    ELSE MAX_RETRY_DELAY

\* _deliver_with_retry: the delay slept after the failed attempt with index
\* attempt (0-based): min(INITIAL_RETRY_DELAY * 2 ** attempt, MAX_RETRY_DELAY)
RetryDelay(attempt) ==
    IF INITIAL_RETRY_DELAY * Pow2(attempt) <= MAX_RETRY_DELAY
    THEN INITIAL_RETRY_DELAY * Pow2(attempt)
    ELSE MAX_RETRY_DELAY

\* a task that has not yet entered the loop
NewDelivery ==
    [ attempt |-> 0, clock |-> 0, posts |-> << >>, waits |-> << >>,
      done |-> FALSE, result |-> FALSE ]

DeliveryOf(id) == IF id \in DOMAIN deliveries THEN deliveries[id] ELSE NewDelivery

\* what one pass of the loop meets: the response of the subscriber ("2xx",
\* "non2xx", "error": httpx raises, "no_payload": the event row cannot be
\* read) and whether the updates of the event row go through
DeliveryEnvs ==
    [ response : { "2xx", "non2xx", "error", "no_payload" },
      update_ok : BOOLEAN, mark_ok : BOOLEAN ]

\* _update_event_attempt(event_id, attempt_count), exceptions swallowed
_update_event_attempt(ev, id, attempt_count, ok) ==
    IF ~ ok THEN ev
    ELSE [ ev EXCEPT ![id].attempts = attempt_count,
                     ![id].status = IF attempt_count > 1 THEN "retrying"
                                    ELSE "pending" ]

\* _mark_event_success / _mark_event_failed, exceptions swallowed
_mark_event(ev, id, status, ok) ==
    IF ~ ok THEN ev ELSE [ ev EXCEPT ![id].status = status ]

\* one pass of the for loop of _deliver_with_retry for event id, with the
\* sleep that follows a failed attempt, and the code after the loop when the
\* pass was the last one
_deliver_with_retry(ev, d, id, env) ==
    LET ev1 == _update_event_attempt(ev, id, d.attempt + 1, env.update_ok)
        posted == [ d EXCEPT !.posts = Append(@, [ at |-> d.clock,
                                                   response |-> env.response ]) ]
    IN  IF env.response = "no_payload"
        THEN [ ev |-> ev1, d |-> [ d EXCEPT !.done = TRUE, !.result = FALSE ] ]
        ELSE IF env.response = "2xx"
        THEN [ ev |-> _mark_event(ev1, id, "success", env.mark_ok),
               d |-> [ posted EXCEPT !.done = TRUE, !.result = TRUE ] ]
        ELSE IF d.attempt < MAX_RETRIES
        THEN [ ev |-> ev1,
               d |-> [ posted EXCEPT !.attempt = @ + 1,
                                     !.waits = Append(@, RetryDelay(d.attempt)),
                                     !.clock = @ + RetryDelay(d.attempt) ] ]
        ELSE [ ev |-> _mark_event(ev1, id, "failed", env.mark_ok),
               d |-> [ posted EXCEPT !.done = TRUE, !.result = FALSE ] ]

storeVars == << subspace, marker, subspace_marker, artifact, signal, config,
                mcall, last >>

\* the event loop runs the delivery task of event id for one pass
Deliver(id, env) ==
    /\ id \in delivery_tasks
    /\ ~ DeliveryOf(id).done
    /\ \E out \in { _deliver_with_retry(webhook_event, DeliveryOf(id), id, env) } :
           /\ webhook_event' = out.ev
           /\ deliveries' = [ i \in DOMAIN deliveries \cup {id} |->
                                 IF i = id THEN out.d ELSE deliveries[i] ]
    /\ UNCHANGED << storeVars, delivery_tasks, confidence, subspace_drift,
                    subspace_velocity, ucall, repo_calls, sres, cc, chist, gres,
                    lateVars >>

\* the store before any request, with every marker and centroid set
FreshStore ==
    [ sub |-> [ t \in SubspaceIds |-> SubspaceRow(Some(LabelEmbedding(t))) ],
      mk |-> [ m \in MarkerIds |-> MarkerRow(Some(LabelEmbedding(m))) ],
      links |-> { [ subspace_id |-> m, marker_id |-> m, weight |-> FullWeight ] :
                    m \in MarkerIds },
      art |-> << >>, sig |-> << >>, ev |-> << >>, tasks |-> {} ]

\* a capture of user u1 has just dispatched artifact.created
InitDeliver ==
    /\ config = None
    /\ mcall = NoCall
    /\ InitExt
    /\ subspace_marker = FreshStore.links
    /\ \E out \in { capture_artifact(FreshStore, "u1",
                         Body(1, "a", Some(Vec(0)), FALSE, ZeroScores, "latent",
                              None, None, TRUE), CalmEnv) } :
           /\ subspace = out.sub
           /\ marker = out.mk
           /\ artifact = out.art
           /\ signal = out.sig
           /\ webhook_event = out.ev
           /\ delivery_tasks = out.tasks
           /\ last = out.last

NextDeliver == \E id \in delivery_tasks, env \in DeliveryEnvs : Deliver(id, env)

SpecDeliver == InitDeliver /\ [][NextDeliver]_vars

\* the wait the schedule prescribes before the n-th retry, n = 1 .. 5
ScheduledWait(n) ==
    IF INITIAL_RETRY_DELAY * Pow2(n - 1) < MAX_RETRY_DELAY
    THEN INITIAL_RETRY_DELAY * Pow2(n - 1) ELSE MAX_RETRY_DELAY

RECURSIVE SumWaits(_)
SumWaits(n) == IF n = 0 THEN 0 ELSE SumWaits(n - 1) + ScheduledWait(n)

\* C11: a delivery makes its first attempt at 0 s, then at most 5 retries,
\* the wait before the n-th retry being min(initial * 2^(n-1), 300) seconds,
\* and makes no attempt after the first 2xx response.
C11_RetrySchedule ==
    \A id \in DOMAIN deliveries :
        LET d == deliveries[id]
        IN  /\ Len(d.posts) <= MAX_RETRIES + 1
            /\ Len(d.waits) <= MAX_RETRIES
            /\ \A n \in DOMAIN d.waits : d.waits[n] = ScheduledWait(n)
            /\ \A k \in DOMAIN d.posts :
                   /\ d.posts[k].at = SumWaits(k - 1)
                   /\ k < Len(d.posts) => d.posts[k].response # "2xx"
            /\ (d.posts # << >> /\ d.posts[Len(d.posts)].response = "2xx")
                   => d.done

\* C27: when the delivery task of a webhook event has ended, the status of
\* the event is 'success' or 'failed', never still 'pending' or 'retrying'.
C27_TerminalWhenDone ==
    \A id \in DOMAIN deliveries :
        deliveries[id].done => webhook_event[id].status \in { "success", "failed" }

\* a delivery succeeded on its last retry, after all five waits
C11_Witness ==
    \E id \in DOMAIN deliveries :
        /\ deliveries[id].done /\ deliveries[id].result
        /\ Len(deliveries[id].waits) = MAX_RETRIES
        /\ Len(deliveries[id].posts) = MAX_RETRIES + 1

\* ----------------------------------------------------- subspace analytics
\* No repository operation is started once MaxRepoCalls have been made.
MaxRepoCalls == 2

\* core/config.py
DRIFT_THRESHOLD == 5
CONFIDENCE_LEARNING_RATE == 5
\* config_cache DEFAULTS['centroid_history_threshold']
DistanceThreshold == 5
MinSignalsBetweenLogs == 5

\* centroids a caller hands to the repository: 0, 30 and 180 degrees
CentroidVecs == { Vec(0), Vec(2), Vec(12) }

Truthy(o) == IsSome(o) /\ Get(o) # 0

\* SubspaceAnalyticsService.__init__(drift_threshold): the second assignment
\* overwrites the default taken from config.DRIFT_THRESHOLD
SubspaceAnalyticsService(drift_threshold) == [ drift_threshold |-> drift_threshold ]

\* calculate_drift: max(0.0, 1 - cosine similarity); 0.0 on any exception
calculate_drift(previous_centroid, new_centroid) ==
    IF previous_centroid.dim # new_centroid.dim THEN 0
    ELSE Max(0, One - CosSim(previous_centroid, new_centroid))

\* should_log_drift: drift_magnitude >= self.drift_threshold, a TypeError
\* when the threshold is None
should_log_drift(svc, drift_magnitude) ==
    IF IsNone(svc.drift_threshold)
    THEN [ raised |-> TRUE, value |-> FALSE ]
    ELSE [ raised |-> FALSE, value |-> drift_magnitude >= Get(svc.drift_threshold) ]

\* calculate_velocity: the displacement (here the angle between the two
\* centroids) over max(time_delta_seconds, 1.0)
calculate_velocity(previous_centroid, new_centroid, time_delta) ==
    [ displacement |-> Abs(new_centroid.angle - previous_centroid.angle),
      seconds |-> Max(time_delta, 1) ]

\* log_drift: one insert into subspace_drift, exceptions swallowed
log_drift(tbl, subspace_id, drift_magnitude, trigger_signal_id, ok) ==
    IF ~ ok THEN tbl
    ELSE Append(tbl, [ subspace_id |-> subspace_id,
                       drift_magnitude |-> drift_magnitude,
                       trigger_signal_id |-> trigger_signal_id ])

\* log_velocity: one insert into subspace_velocity, exceptions swallowed
log_velocity(tbl, subspace_id, v, ok) ==
    IF ~ ok THEN tbl
    ELSE Append(tbl, [ subspace_id |-> subspace_id, velocity |-> v ])

AnalyticsStore == [ sub |-> subspace, conf |-> confidence,
                    drift |-> subspace_drift, vel |-> subspace_velocity ]

\* the arguments of update_centroid
TrackingInfo(previous_centroid, trigger_signal_id, last_updated) ==
    [ previous_centroid |-> previous_centroid,
      trigger_signal_id |-> trigger_signal_id, last_updated |-> last_updated ]

\* the drift tracking arguments: none, all (with and without last_updated),
\* or a previous centroid without the signal that triggered the update
TrackingInfos ==
    { TrackingInfo(None, None, None), TrackingInfo(Some(Vec(0)), None, None),
      TrackingInfo(Some(Vec(0)), Some(1), None),
      TrackingInfo(Some(Vec(0)), Some(1), Some(60)) }

CentroidArgs ==
    [ subspace_id : SubspaceIds, user_id : Users, new_centroid : CentroidVecs,
      confidence : { None, Some(50), Some(150), Some(0 - 20) },
      tracking : TrackingInfos, space_id : { Some(1) } ]

\* what a call meets: whether the inserts and the update go through
CentroidEnvs ==
    { [ drift_ok |-> d, vel_ok |-> d, update_ok |-> u ] : d, u \in BOOLEAN }

CentroidCall(a, tracked, drift, logged, raised, returned) ==
    [ called |-> TRUE, op |-> "update_centroid", subspace_id |-> a.subspace_id,
      tracked |-> tracked, drift |-> drift, logged |-> logged, raised |-> raised,
      returned |-> returned ]

\* SubspaceRepository.update_centroid
update_centroid(st, a, env) ==
    LET previous_centroid == a.tracking.previous_centroid
        trigger_signal_id == a.tracking.trigger_signal_id
        last_updated == a.tracking.last_updated
        tracked == /\ IsSome(previous_centroid)
                   /\ Truthy(trigger_signal_id) /\ Truthy(a.space_id)
        analytics == SubspaceAnalyticsService(None)
        drift == IF tracked
                 THEN calculate_drift(Get(previous_centroid), a.new_centroid)
                 ELSE 0
        should == should_log_drift(analytics, drift)
        logged == tracked /\ ~ should.raised /\ should.value
        drift1 == IF logged
                  THEN log_drift(st.drift, a.subspace_id, drift,
                                 Get(trigger_signal_id), env.drift_ok)
                  ELSE st.drift
        vel1 == IF tracked /\ ~ should.raised /\ IsSome(last_updated)
                THEN log_velocity(st.vel, a.subspace_id,
                         calculate_velocity(Get(previous_centroid),
                                            a.new_centroid, Get(last_updated)),
                         env.vel_ok)
                ELSE st.vel
        matches == st.sub[a.subspace_id].user_id = a.user_id
    IN  IF tracked /\ should.raised
        THEN [ st |-> st, call |-> CentroidCall(a, tracked, drift, FALSE, TRUE, FALSE) ]
        ELSE IF ~ env.update_ok
        THEN [ st |-> [ st EXCEPT !.drift = drift1, !.vel = vel1 ],
               call |-> CentroidCall(a, tracked, drift, logged, TRUE, FALSE) ]
        ELSE [ st |-> [ st EXCEPT
                   !.drift = drift1, !.vel = vel1,
                   !.sub = IF matches
                           THEN [ @ EXCEPT ![a.subspace_id].centroid_embedding =
                                               Some(a.new_centroid) ]
                           ELSE @,
                   !.conf = IF matches /\ IsSome(a.confidence)
                            THEN [ @ EXCEPT ![a.subspace_id] = Get(a.confidence) ]
                            ELSE @ ],
               call |-> CentroidCall(a, tracked, drift, logged, FALSE, matches) ]

analyticsFrame == << marker, subspace_marker, artifact, signal, webhook_event,
                     delivery_tasks, config, mcall, last, deliveries, sres, cc,
                     chist, gres, lateVars >>

UpdateCentroid(a, env) ==
    /\ repo_calls < MaxRepoCalls
    /\ \E out \in { update_centroid(AnalyticsStore, a, env) } :
           /\ subspace' = out.st.sub
           /\ confidence' = out.st.conf
           /\ subspace_drift' = out.st.drift
           /\ subspace_velocity' = out.st.vel
           /\ ucall' = out.call
    /\ repo_calls' = repo_calls + 1
    /\ UNCHANGED analyticsFrame

Clamp01(x) == Max(0, IF x <= One THEN x ELSE One)

RECURSIVE SumSim(_, _)
SumSim(embeddings, centroid) ==
    IF embeddings = << >> THEN 0
    ELSE CosSim(Head(embeddings), centroid) + SumSim(Tail(embeddings), centroid)

\* calculate_batch_coherence: the mean cosine similarity of the batch to the
\* centroid, clamped to [0, 1]; 0.0 for an empty batch
calculate_batch_coherence(embeddings, centroid) ==
    IF embeddings = << >> THEN 0
    ELSE Clamp01(SumSim(embeddings, centroid) \div Len(embeddings))

\* update_confidence: (1 - a) * old + a * coherence, clamped to [0, 1]
update_confidence(current_confidence, batch_coherence, learning_rate) ==
    Clamp01(((One - learning_rate) * current_confidence
                + learning_rate * batch_coherence) \div One)

\* the arguments of update_confidence_from_batch; the current confidence
\* and the learning rate are the caller's
BatchArgs ==
    [ subspace_id : SubspaceIds, user_id : Users,
      batch_embeddings : { << >>, << Vec(0) >>, << Vec(2), Vec(12) >> },
      current_centroid : { Vec(0) },
      current_confidence : { 50, 150, 0 - 20 },
      learning_rate : { None, Some(50), Some(300) } ]

BatchCall(a, returned) ==
    [ called |-> TRUE, op |-> "update_confidence_from_batch",
      subspace_id |-> a.subspace_id, tracked |-> FALSE, drift |-> 0,
      logged |-> FALSE, raised |-> FALSE, returned |-> returned # None ]

\* SubspaceRepository.update_confidence_from_batch; update_ok: the update of
\* the row goes through (any exception is swallowed and None returned)
update_confidence_from_batch(st, a, update_ok) ==
    LET learning_rate == IF IsNone(a.learning_rate) THEN CONFIDENCE_LEARNING_RATE
                         ELSE Get(a.learning_rate)
        batch_coherence == calculate_batch_coherence(a.batch_embeddings,
                                                     a.current_centroid)
        new_confidence == update_confidence(a.current_confidence,
                                            batch_coherence, learning_rate)
        matches == st.sub[a.subspace_id].user_id = a.user_id
    IN  IF update_ok /\ matches
        THEN [ st |-> [ st EXCEPT !.conf[a.subspace_id] = new_confidence ],
               call |-> BatchCall(a, Some(new_confidence)) ]
        ELSE [ st |-> st, call |-> BatchCall(a, None) ]

UpdateConfidenceFromBatch(a, update_ok) ==
    /\ repo_calls < MaxRepoCalls
    /\ \E out \in { update_confidence_from_batch(AnalyticsStore, a, update_ok) } :
           /\ confidence' = out.st.conf
           /\ ucall' = out.call
    /\ repo_calls' = repo_calls + 1
    /\ UNCHANGED << subspace, subspace_drift, subspace_velocity, analyticsFrame >>

\* the magnitudes calculate_drift yields for the centroids above that reach
\* config.DRIFT_THRESHOLD
LoggableDrifts ==
    { d \in { calculate_drift(v, w) : v, w \in CentroidVecs } : d >= DRIFT_THRESHOLD }

\* SubspaceRepository.log_drift called on its own: the row is inserted as
\* given, whatever was logged before
LogDrift(subspace_id, drift_magnitude, trigger_signal_id, ok) ==
    /\ repo_calls < MaxRepoCalls
    /\ subspace_drift' = log_drift(subspace_drift, subspace_id, drift_magnitude,
                                   trigger_signal_id, ok)
    /\ ucall' = [ called |-> TRUE, op |-> "log_drift", subspace_id |-> subspace_id,
                  tracked |-> TRUE, drift |-> drift_magnitude, logged |-> ok,
                  raised |-> FALSE, returned |-> ok ]
    /\ repo_calls' = repo_calls + 1
    /\ UNCHANGED << subspace, confidence, subspace_velocity, analyticsFrame >>

\* the subspaces of u1, each with a centroid
InitAnalytics ==
    /\ subspace = [ s \in SubspaceIds |-> SubspaceRow(Some(Vec(0))) ]
    /\ config = None
    /\ InitStore

NextAnalytics ==
    \/ \E a \in CentroidArgs, env \in CentroidEnvs : UpdateCentroid(a, env)
    \/ \E a \in BatchArgs, ok \in BOOLEAN : UpdateConfidenceFromBatch(a, ok)
    \/ \E s \in SubspaceIds, d \in LoggableDrifts, t \in 1 .. 2, ok \in BOOLEAN :
           LogDrift(s, d, t, ok)

SpecAnalytics == InitAnalytics /\ [][NextAnalytics]_vars

C14_ConfidenceInUnitRange == \A s \in SubspaceIds : confidence[s] \in 0 .. One

\* ---------------------------------------------------- marker weight decay
\* core/config.py: the rate in hundredths, the floor in weight units
MARKER_DECAY_RATE == 10
MARKER_MIN_WEIGHT == 1000
\* `abs(new_weight - current_weight) > 0.0001`
WeightTolerance == 10

\* the weights a caller gives a new link: 1.0, 0.012, 0.00995 and 0.0
LinkWeights == { FullWeight, 1200, 995, 0 }

RepoCall(op, subspace_id, raised, returned) ==
    [ called |-> TRUE, op |-> op, subspace_id |-> subspace_id, raised |-> raised,
      returned |-> returned ]

\* SubspaceRepository.add_marker: one insert; a second link of the same
\* subspace and marker breaks the primary key and the exception is re-raised
add_marker(links, subspace_id, marker_id, weight) ==
    IF \E l \in links : l.subspace_id = subspace_id /\ l.marker_id = marker_id
    THEN [ links |-> links, raised |-> TRUE ]
    ELSE [ links |-> links \cup { [ subspace_id |-> subspace_id,
                                    marker_id |-> marker_id, weight |-> weight ] },
           raised |-> FALSE ]

\* new_weight = max(current_weight * (1 - decay_rate), min_weight)
DecayedWeight(current_weight, decay_rate, min_weight) ==
    Max((current_weight * (One - decay_rate)) \div One, min_weight)

\* the link is written only if its weight changed by more than the tolerance
NeedsUpdate(current_weight, new_weight) ==
    Abs(new_weight - current_weight) > WeightTolerance

\* SubspaceRepository.decay_marker_weights: the links of the subspace are
\* updated one by one, in the order of their marker ids here; the update of
\* the link of marker fail_at (0: none) raises and ends the loop
decay_marker_weights(links, subspace_id, decay_rate, min_weight, fail_at) ==
    LET rate == IF IsNone(decay_rate) THEN MARKER_DECAY_RATE ELSE Get(decay_rate)
        floor == IF IsNone(min_weight) THEN MARKER_MIN_WEIGHT ELSE Get(min_weight)
        mine == { l \in links : l.subspace_id = subspace_id }
        due == { l \in mine :
                   NeedsUpdate(l.weight, DecayedWeight(l.weight, rate, floor)) }
        failed == \E l \in due : l.marker_id = fail_at
        done == IF failed THEN { l \in due : l.marker_id < fail_at } ELSE due
    IN  [ links |-> (links \ done)
                      \cup { [ l EXCEPT !.weight = DecayedWeight(l.weight, rate, floor) ] :
                               l \in done },
          raised |-> failed,
          updated_count |-> Cardinality(done) ]

decayFrame == << subspace, marker, artifact, signal, webhook_event, delivery_tasks,
                 config, mcall, last, deliveries, confidence, subspace_drift,
                 subspace_velocity, sres, cc, chist, gres, lateVars >>

AddMarker(subspace_id, marker_id, weight) ==
    /\ repo_calls < MaxRepoCalls
    /\ \E out \in { add_marker(subspace_marker, subspace_id, marker_id, weight) } :
           /\ subspace_marker' = out.links
           /\ ucall' = RepoCall("add_marker", subspace_id, out.raised, 0)
    /\ repo_calls' = repo_calls + 1
    /\ UNCHANGED decayFrame

DecayMarkerWeights(subspace_id, decay_rate, fail_at) ==
    /\ repo_calls < MaxRepoCalls
    /\ \E out \in { decay_marker_weights(subspace_marker, subspace_id, decay_rate,
                                        None, fail_at) } :
           /\ subspace_marker' = out.links
           /\ ucall' = RepoCall("decay_marker_weights", subspace_id, out.raised,
                                out.updated_count)
    /\ repo_calls' = repo_calls + 1
    /\ UNCHANGED decayFrame

NextDecay ==
    \/ \E s \in SubspaceIds, m \in MarkerIds, w \in LinkWeights : AddMarker(s, m, w)
    \/ \E s \in SubspaceIds, r \in { None, Some(50) }, f \in { 0 } \cup MarkerIds :
           DecayMarkerWeights(s, r, f)

\* every subspace is linked to the marker of its own number, weight 1.0
SpecDecay == InitAnalytics /\ [][NextDecay]_vars

\* C15: after a marker-weight decay operation on a subspace every link weight
\* of that subspace is >= MARKER_MIN_WEIGHT, whatever the weights were before.
C15_WeightFloor ==
    (ucall.called /\ ucall.op = "decay_marker_weights" /\ ~ ucall.raised)
        => \A l \in subspace_marker :
               l.subspace_id = ucall.subspace_id => l.weight >= MARKER_MIN_WEIGHT

\* ------------------------------------------------------------------ search
\* SearchResult.similarity of a hit of the degraded mode
FallbackSimilarity == 50

\* the elements of S as a sequence, by increasing key
RECURSIVE OrderBy(_, _)
OrderBy(S, key) ==
    IF S = {} THEN << >>
    ELSE LET x == CHOOSE y \in S : \A z \in S : key[y] <= key[z]
         IN  << x >> \o OrderBy(S \ {x}, key)

Take(seq, n) == SubSeq(seq, 1, IF n < Len(seq) THEN n ELSE Len(seq))

\* SearchCommand.__post_init__: a ValueError for a missing user or query, a
\* limit outside 1 .. 100 or a threshold outside [0, 1]
SearchCommandValid(cmd) ==
    /\ cmd.user_id # "" /\ cmd.query # ""
    /\ cmd.limit >= 1 /\ cmd.limit <= 100
    /\ cmd.threshold >= 0 /\ cmd.threshold <= One

\* embed_query: the query text as a 768-dimensional vector
embed_query(query) == Vec(IF query = "near" THEN 0 ELSE MaxAngle)

\* the optional filters of a search on a signal row
FiltersPass(cmd, row) ==
    /\ IsSome(cmd.space_id) => row.space_id = Get(cmd.space_id)
    /\ IsSome(cmd.subspace_id) => row.subspace_id = cmd.subspace_id

\* misir.search_signals_by_vector: the live signals of p_user_id on live
\* artifacts whose similarity reaches p_threshold, nearest first, at most
\* p_limit rows
search_signals_by_vector(art, sig, cmd, query_vector) ==
    LET rows == { i \in DOMAIN sig :
                    /\ sig[i].user_id = cmd.user_id
                    /\ ~ sig[i].deleted /\ ~ art[sig[i].artifact_id].deleted
                    /\ FiltersPass(cmd, sig[i])
                    /\ One - CosDistance(query_vector, sig[i].vector) >= cmd.threshold }
        key == [ i \in rows |->
                   CosDistance(query_vector, sig[i].vector) * (Len(sig) + 1) + i ]
        ordered == Take(OrderBy(rows, key), cmd.limit)
    IN  [ k \in DOMAIN ordered |->
            [ signal_id |-> ordered[k], artifact_id |-> sig[ordered[k]].artifact_id,
              distance |-> CosDistance(query_vector, sig[ordered[k]].vector),
              space_id |-> sig[ordered[k]].space_id,
              subspace_id |-> sig[ordered[k]].subspace_id ] ]

\* _parse_results: similarity = 1 - distance
_parse_results(data) ==
    [ k \in DOMAIN data |->
        [ artifact_id |-> data[k].artifact_id, signal_id |-> data[k].signal_id,
          similarity |-> One - data[k].distance, space_id |-> data[k].space_id,
          subspace_id |-> data[k].subspace_id ] ]

\* a faulty variant: the query on the signal table is not filtered by user
FallbackRows_faulty(sig, cmd) ==
    { i \in DOMAIN sig : ~ sig[i].deleted /\ FiltersPass(cmd, sig[i]) }

\* the rows the query of _fallback_search selects from the signal table:
\* .eq('user_id').is_('deleted_at', 'null') and the optional filters
FallbackRows(sig, cmd) ==
    { i \in DOMAIN sig : /\ sig[i].user_id = cmd.user_id
                         /\ ~ sig[i].deleted
                         /\ FiltersPass(cmd, sig[i]) }

\* _fallback_search: at most limit * 2 rows in the order the store returns
\* them (newest_first or not), the first limit of them as hits of
\* similarity 0.5
_fallback_search(sig, cmd, newest_first) ==
    LET rows == FallbackRows(sig, cmd)
        key == [ i \in rows |-> IF newest_first THEN 0 - i ELSE i ]
        data == Take(Take(OrderBy(rows, key), cmd.limit * 2), cmd.limit)
    IN  [ k \in DOMAIN data |->
            [ artifact_id |-> sig[data[k]].artifact_id, signal_id |-> data[k],
              similarity |-> FallbackSimilarity, space_id |-> sig[data[k]].space_id,
              subspace_id |-> sig[data[k]].subspace_id ] ]

\* what a search meets: the RPC and the direct query work or raise
SearchEnv(rpc_ok, query_ok, newest_first) ==
    [ rpc_ok |-> rpc_ok, query_ok |-> query_ok, newest_first |-> newest_first ]

SearchEnvs ==
    { SearchEnv(TRUE, TRUE, TRUE), SearchEnv(FALSE, TRUE, TRUE),
      SearchEnv(FALSE, TRUE, FALSE), SearchEnv(FALSE, FALSE, TRUE) }

\* SearchHandler.search: the endpoints called in order, the mode that
\* produced the response and the hits; raised when the fallback query fails
search(art, sig, cmd, env) ==
    LET query_vector == embed_query(cmd.query)
    IN  IF env.rpc_ok
        THEN [ calls |-> << "search_signals_by_vector" >>, mode |-> "rpc",
               raised |-> FALSE,
               results |-> _parse_results(
                               search_signals_by_vector(art, sig, cmd, query_vector)) ]
        ELSE IF env.query_ok
        THEN [ calls |-> << "search_signals_by_vector", "signal" >>,
               mode |-> "fallback", raised |-> FALSE,
               results |-> _fallback_search(sig, cmd, env.newest_first) ]
        ELSE [ calls |-> << "search_signals_by_vector", "signal" >>,
               mode |-> "fallback", raised |-> TRUE, results |-> << >> ]

SearchCommands ==
    [ user_id : Users, query : { "", "near", "far" }, space_id : { None, Some(1) },
      subspace_id : { None, Some(1) }, limit : { 1, 20 }, threshold : { 0, 50, 70 } ]

\* ArtifactRepository.delete_artifact: the artifact row alone is marked
delete_artifact(art, artifact_id, user_id, ok) ==
    IF ok /\ artifact_id \in DOMAIN art /\ art[artifact_id].user_id = user_id
          /\ ~ art[artifact_id].deleted
    THEN [ art EXCEPT ![artifact_id].deleted = TRUE ]
    ELSE art

searchFrame == << subspace, marker, subspace_marker, webhook_event, delivery_tasks,
                  config, mcall, last, deliveries, confidence, subspace_drift,
                  subspace_velocity, ucall, repo_calls, cc, chist, gres, lateVars >>

\* GET /search
Search(cmd, env) ==
    /\ sres' = IF ~ SearchCommandValid(cmd)
               THEN [ called |-> TRUE, valid |-> FALSE, cmd |-> cmd ]
               ELSE LET out == search(artifact, signal, cmd, env)
                    IN  [ called |-> TRUE, valid |-> TRUE, cmd |-> cmd,
                          calls |-> out.calls, mode |-> out.mode,
                          raised |-> out.raised, results |-> out.results,
                          dead |-> { k \in DOMAIN out.results :
                                       \/ artifact[out.results[k].artifact_id].deleted
                                       \/ signal[out.results[k].signal_id].deleted } ]
    /\ UNCHANGED << artifact, signal, searchFrame >>

DeleteArtifact(artifact_id, user_id, ok) ==
    /\ artifact' = delete_artifact(artifact, artifact_id, user_id, ok)
    /\ UNCHANGED << signal, sres, searchFrame >>

SeedParams(user_id, space_id, url, angle, subspace_id) ==
    [ user_id |-> user_id, space_id |-> space_id, url |-> url,
      embedding |-> Vec(angle), subspace_id |-> subspace_id,
      engagement_level |-> "latent", matched_marker_ids |-> {}, margin |-> None,
      updates_centroid |-> FALSE ]

\* the store after four captures: two pages of u1 (one captured twice) and
\* one page of u2
SeededStore ==
    LET s0 == [ art |-> << >>, sig |-> << >>,
                sub |-> [ t \in SubspaceIds |-> SubspaceRow(Some(LabelEmbedding(t))) ] ]
        s1 == insert_artifact_with_signal(s0.art, s0.sig, s0.sub,
                  SeedParams("u1", 1, "a", 0, Some(1)))
        s2 == insert_artifact_with_signal(s1.art, s1.sig, s1.sub,
                  SeedParams("u1", 2, "b", MaxAngle, None))
        s3 == insert_artifact_with_signal(s2.art, s2.sig, s2.sub,
                  SeedParams("u2", 3, "a", 0, None))
    IN  insert_artifact_with_signal(s3.art, s3.sig, s3.sub,
            SeedParams("u1", 1, "a", 1, Some(1)))

InitSearch ==
    /\ marker = [ m \in MarkerIds |-> MarkerRow(Some(LabelEmbedding(m))) ]
    /\ subspace_marker = FreshStore.links
    /\ webhook_event = << >>
    /\ delivery_tasks = {}
    /\ mcall = NoCall
    /\ last = NoRequest
    /\ InitExt
    /\ config = None
    /\ subspace = SeededStore.sub
    /\ artifact = SeededStore.art
    /\ signal = SeededStore.sig

NextSearch ==
    \/ \E cmd \in SearchCommands, env \in SearchEnvs : Search(cmd, env)
    \/ \E a \in 1 .. Len(artifact), u \in Users, ok \in BOOLEAN : DeleteArtifact(a, u, ok)

SpecSearch == InitSearch /\ [][NextSearch]_vars

Searched == sres.called /\ sres.valid /\ ~ sres.raised

\* C16: search tries the two-stage Matryoshka endpoint first, calls the
\* single-stage search only after it, and serves most-recent signals with
\* similarity 0.5 only after both.
C16_MatryoshkaFirst ==
    (sres.called /\ sres.valid)
        => /\ sres.calls[1] = "search_signals_by_vector_matryoshka"
           /\ sres.mode = "fallback"
                  => SubSeq(sres.calls, 1, 2) = << "search_signals_by_vector_matryoshka",
                                                   "search_signals_by_vector" >>

\* C17: every hit of a search has similarity >= the threshold of the command,
\* in every mode.
C17_HitsReachThreshold ==
    Searched => \A k \in DOMAIN sres.results :
                    sres.results[k].similarity >= sres.cmd.threshold

\* C18: every hit of a search for a user refers to a signal and an artifact
\* owned by that user, in normal and in degraded mode.
C18_HitsOwnedByUser ==
    Searched => \A k \in DOMAIN sres.results :
                    /\ signal[sres.results[k].signal_id].user_id = sres.cmd.user_id
                    /\ artifact[sres.results[k].artifact_id].user_id = sres.cmd.user_id

\* a degraded search without filters returned hits while the store holds a
\* live signal of another user
C18_Witness ==
    /\ Searched /\ sres.mode = "fallback" /\ sres.results # << >>
    /\ IsNone(sres.cmd.space_id) /\ IsNone(sres.cmd.subspace_id)
    /\ \E i \in DOMAIN signal :
           signal[i].user_id # sres.cmd.user_id /\ ~ signal[i].deleted

\* C19: no search returns a hit for an artifact that was soft-deleted before
\* it, or for a signal of such an artifact.
C19_NoDeletedHits == Searched => sres.dead = {}

\* ------------------------------------------------------------ config cache
\* SystemConfigCache(ttl_seconds = 60); the clock advances in steps of
\* ClockStep seconds up to MaxClock
TtlSeconds == 60
ClockStep == (3 * TtlSeconds) \div 4
MaxClock == 135
\* No refresh task is created while MaxTasks tasks wait to run.
MaxTasks == 2

\* _cache holds 'assignment_margin_threshold' (the variable config) and
\* 'embedding_model' (cc.others, here its dimension)
ConfigKeys == { "assignment_margin_threshold", "embedding_model" }

CacheOf(cfg, c) ==
    [ k \in ConfigKeys |-> IF k = "assignment_margin_threshold" THEN cfg ELSE c.others ]

\* DEFAULTS.get(key): there is no built-in default of the margin threshold
BuiltinDefault(key) == IF key = "embedding_model" THEN Some(FullDim) ELSE None

\* _is_expired
_is_expired(c) == IsNone(c.last_fetch) \/ c.now - Get(c.last_fetch) > TtlSeconds

\* what the select of system_config returns: an exception, no rows, or rows
\* for some of the keys
NoRows == [ k \in ConfigKeys |-> None ]
Fetches ==
    { [ raised |-> TRUE, rows |-> NoRows ], [ raised |-> FALSE, rows |-> NoRows ] }
        \cup { [ raised |-> FALSE,
                 rows |-> [ k \in ConfigKeys |->
                              IF k = "assignment_margin_threshold" THEN t ELSE d ] ] :
                   t \in { None, Some(10) }, d \in { Some(PrefilterDim) } }

\* a faulty variant: a fetch that raises empties the cache
refresh_faulty(cache, c, fetch) ==
    IF c.refreshing THEN [ cache |-> cache, c |-> c ]
    ELSE IF fetch.raised THEN [ cache |-> NoRows, c |-> c ]
    ELSE IF fetch.rows = NoRows THEN [ cache |-> cache, c |-> c ]
    ELSE [ cache |-> fetch.rows, c |-> [ c EXCEPT !.last_fetch = Some(c.now) ] ]

\* SystemConfigCache.refresh, which has no await and so runs in one step:
\* the cache is replaced by the rows and _last_fetch set only when the
\* select returned rows; _refreshing is reset in the finally clause
refresh(cache, c, fetch) ==
    IF c.refreshing THEN [ cache |-> cache, c |-> c ]
    ELSE IF fetch.raised \/ fetch.rows = NoRows THEN [ cache |-> cache, c |-> c ]
    ELSE [ cache |-> fetch.rows, c |-> [ c EXCEPT !.last_fetch = Some(c.now) ] ]

\* SystemConfigCache.get: the cached value, else the default given, else the
\* built-in default; spawn tells whether a refresh task is created
get(cache, c, key, default) ==
    [ spawn |-> _is_expired(c) /\ ~ c.refreshing,
      value |-> IF IsSome(cache[key]) THEN cache[key]
                ELSE IF IsSome(default) THEN default
                ELSE BuiltinDefault(key) ]

configFrame == << subspace, marker, subspace_marker, artifact, signal,
                  webhook_event, delivery_tasks, mcall, last, deliveries,
                  confidence, subspace_drift, subspace_velocity, ucall,
                  repo_calls, sres, lateVars >>

\* the last-known value of a key: that of the last fetch that succeeded
LastKnown(key) == IF chist.populated THEN chist.rows[key] ELSE None

ConfigGet(key, default) ==
    /\ cc.tasks < MaxTasks
    /\ \E out \in { get(CacheOf(config, cc), cc, key, default) } :
           /\ gres' = [ called |-> TRUE, key |-> key, default |-> default,
                        value |-> out.value, after_failure |-> chist.failed,
                        known |-> LastKnown(key) ]
           /\ cc' = [ cc EXCEPT !.tasks = IF out.spawn THEN @ + 1 ELSE @ ]
    /\ UNCHANGED << config, chist, configFrame >>

\* the event loop runs a refresh task
ConfigRefresh(fetch) ==
    /\ cc.tasks > 0
    /\ \E out \in { refresh(CacheOf(config, cc), cc, fetch) } :
           /\ config' = out.cache["assignment_margin_threshold"]
           /\ cc' = [ out.c EXCEPT !.others = out.cache["embedding_model"],
                                   !.tasks = @ - 1 ]
    /\ chist' = IF fetch.raised \/ fetch.rows = NoRows
                THEN [ chist EXCEPT !.failed = TRUE ]
                ELSE [ populated |-> TRUE, failed |-> FALSE, rows |-> fetch.rows ]
    /\ UNCHANGED << gres, configFrame >>

Tick ==
    /\ cc.now < MaxClock
    /\ cc' = [ cc EXCEPT !.now = @ + ClockStep ]
    /\ UNCHANGED << config, chist, gres, configFrame >>

InitConfig ==
    /\ InitStore
    /\ subspace = [ s \in SubspaceIds |-> SubspaceRow(Some(LabelEmbedding(s))) ]
    /\ config = None

NextConfig ==
    \/ \E key \in ConfigKeys, default \in { None, Some(DefaultMarginThreshold) } :
           ConfigGet(key, default)
    \/ \E fetch \in Fetches : ConfigRefresh(fetch)
    \/ Tick

SpecConfig == InitConfig /\ [][NextConfig]_vars

\* C20: after a failed refresh every read of a key returns the last-known
\* value of the key if there is one and the default otherwise, and the cache
\* still holds the values of the last refresh that succeeded.
C20_FailSoftReads ==
    /\ \A k \in ConfigKeys : CacheOf(config, cc)[k] = LastKnown(k)
    /\ (gres.called /\ gres.after_failure)
           => gres.value = IF IsSome(gres.known) THEN gres.known
                           ELSE IF IsSome(gres.default) THEN gres.default
                           ELSE BuiltinDefault(gres.key)

\* C28: the reads against an expired cache have caused at most one fetch
\* that has not yet completed (every refresh task created fetches once).
C28_AtMostOneFetchPending == cc.tasks <= 1

\* a refresh succeeded, a later one failed, and the read that followed
\* returned the cached value, which is not the default
C20_Witness ==
    /\ gres.called /\ gres.after_failure /\ chist.populated
    /\ gres.key = "assignment_margin_threshold"
    /\ gres.value = Some(10) /\ gres.default = Some(DefaultMarginThreshold)

\* -------------------------------------------------------- embedding model
\* the variables of everything but the embedding service
notEmb == << subspace, marker, subspace_marker, artifact, signal, webhook_event,
             delivery_tasks, config, mcall, last, extVarsBase, bres, subsVars >>

\* a thread reads the _model property: the first test of _load_model,
\* outside the lock
FirstCheck(t) ==
    /\ esvc.pc[t] = "idle"
    /\ esvc' = IF esvc.model_instance # 0
              THEN [ esvc EXCEPT !.pc[t] = "done", !.got[t] = esvc.model_instance ]
              ELSE [ esvc EXCEPT !.pc[t] = "waiting" ]
    /\ UNCHANGED notEmb

\* `with self._model_lock`
AcquireLock(t) ==
    /\ esvc.pc[t] = "waiting"
    /\ esvc.lock = 0
    /\ esvc' = [ esvc EXCEPT !.lock = t, !.pc[t] = "locked" ]
    /\ UNCHANGED notEmb

\* a faulty variant: the test is not repeated under the lock
SecondCheck_faulty(t) ==
    /\ esvc.pc[t] = "locked"
    /\ esvc' = [ esvc EXCEPT !.pc[t] = "loading" ]
    /\ UNCHANGED notEmb

\* the second test, under the lock: the thread returns the instance another
\* thread has loaded meanwhile, or starts loading
SecondCheck(t) ==
    /\ esvc.pc[t] = "locked"
    /\ esvc' = IF esvc.model_instance # 0
              THEN [ esvc EXCEPT !.pc[t] = "done", !.got[t] = esvc.model_instance,
                                !.lock = 0 ]
              ELSE [ esvc EXCEPT !.pc[t] = "loading" ]
    /\ UNCHANGED notEmb

\* SentenceTransformer(...) returns the next model object, or raises; the
\* lock is released on either way out of the with block
FinishLoad(t, ok) ==
    /\ esvc.pc[t] = "loading"
    /\ esvc' = IF ok
              THEN [ esvc EXCEPT !.constructed = @ + 1,
                                !.model_instance = esvc.constructed + 1,
                                !.loaded = TRUE, !.lock = 0,
                                !.pc[t] = "done", !.got[t] = esvc.constructed + 1 ]
              ELSE [ esvc EXCEPT !.lock = 0, !.pc[t] = "raised" ]
    /\ UNCHANGED notEmb

InitEmbedding ==
    /\ InitStore
    /\ subspace = [ s \in SubspaceIds |-> SubspaceRow(Some(LabelEmbedding(s))) ]
    /\ config = None

NextEmbedding ==
    \E t \in Threads :
        \/ FirstCheck(t)
        \/ AcquireLock(t)
        \/ SecondCheck(t)
        \/ \E ok \in BOOLEAN : FinishLoad(t, ok)

SpecEmbedding == InitEmbedding /\ [][NextEmbedding]_vars

\* C21: whatever the interleaving of the threads, the model is constructed
\* at most once, exactly once when a thread has obtained it, and every
\* thread that obtains a model obtains that one instance.
C21_LoadedOnce ==
    /\ esvc.constructed <= 1
    /\ \A t \in Threads :
           esvc.pc[t] = "done" => /\ esvc.constructed = 1
                                 /\ esvc.got[t] = esvc.model_instance
                                 /\ esvc.got[t] # 0

\* all threads raced past the first test before the model was loaded, and
\* all have obtained it
C21_Witness ==
    /\ \A t \in Threads : esvc.pc[t] = "done" /\ esvc.got[t] = 1
    /\ esvc.loaded

\* ------------------------------------------------------------ batch capture
MaxBatch == 3

\* the element of a set of one element
Only(S) == CHOOSE x \in S : TRUE

\* one pass of the loop of batch_capture over item (position i of the body,
\* index i - 1): the embedding, the command, handler.handle.  Whatever is
\* raised is caught and reported as a failure of the item.
BatchItem(st, user_id, body, env) ==
    LET needEmbed == IsNone(body.embedding)
        raisedEarly == \/ needEmbed /\ ~ body.has_text
                       \/ needEmbed /\ IsNone(env.embed)
                       \/ CommandInvalid(body.url)
        embedding == IF needEmbed THEN Get(env.embed) ELSE Get(body.embedding)
        cmd == [ user_id |-> user_id, space_id |-> body.space_id,
                 url |-> body.url, embedding |-> embedding,
                 engagement_level |-> body.engagement_level,
                 subspace_id |-> body.subspace_id,
                 matched_marker_ids |-> {},
                 margin |-> None, updates_centroid |-> TRUE ]
    IN  IF raisedEarly
        THEN [ st |-> st, outcome |-> "raised", handed |-> None, row |-> None ]
        ELSE Only({ [ st |-> [ st EXCEPT !.art = h.art, !.sig = h.sig,
                                         !.sub = h.sub, !.ev = h.ev,
                                         !.tasks = h.tasks ],
                      outcome |-> IF h.ok THEN "ok" ELSE "err",
                      handed |-> Some([ subspace_id |-> cmd.subspace_id,
                                        margin |-> cmd.margin,
                                        updates_centroid |-> cmd.updates_centroid ]),
                      row |-> IF h.ok
                              THEN Some([ artifact_id |-> h.artifact_id,
                                          signal_id |-> h.signal_id,
                                          is_new |-> h.is_new ])
                              ELSE None ] :
                    h \in { handle(st.art, st.sig, st.sub, st.ev, st.tasks, cmd,
                                   env.store_ok, env.backfill_ok, env.webhook) } })

\* what POST /artifacts/capture hands the store for the same item in the
\* same store state
SingleHanded(st, user_id, body, env) ==
    Only({ IF rec.handed
           THEN Some([ subspace_id |-> rec.cmd_subspace_id,
                       margin |-> rec.cmd_margin,
                       updates_centroid |-> rec.cmd_updates_centroid ])
           ELSE None :
           rec \in { capture_artifact(st, user_id, body, env).last } })

\* the response lists after one more item.  The entries of successful carry
\* no index in the response; item is the index of the item they came from.
Reported(acc, it, i, st, user_id, item) ==
    [ successful |-> IF it.outcome = "ok"
                     THEN Append(acc.successful,
                                 [ artifact_id |-> Get(it.row).artifact_id,
                                   signal_id |-> Get(it.row).signal_id,
                                   is_new |-> Get(it.row).is_new,
                                   item |-> i - 1 ])
                     ELSE acc.successful,
      failed |-> IF it.outcome = "ok" THEN acc.failed
                 ELSE Append(acc.failed, [ index |-> i - 1, url |-> item.body.url ]),
      handed |-> Append(acc.handed, it.handed),
      single |-> Append(acc.single,
                        SingleHanded(st, user_id, item.body, item.env)) ]

\* a faulty variant: the loop ends at the first item that fails
RECURSIVE batch_loop_faulty(_, _, _, _, _)
batch_loop_faulty(st, user_id, items, i, acc) ==
    IF i > Len(items) THEN [ st |-> st, acc |-> acc ]
    ELSE Only(UNION {
           { IF it.outcome = "ok"
             THEN batch_loop_faulty(it.st, user_id, items, i + 1, acc2)
             ELSE [ st |-> it.st, acc |-> acc2 ] :
               acc2 \in { Reported(acc, it, i, st, user_id, items[i]) } } :
           it \in { BatchItem(st, user_id, items[i].body, items[i].env) } })

\* `for i, item in enumerate(body.artifacts)`: successful and failed grow by
\* one entry per item
RECURSIVE batch_loop(_, _, _, _, _)
batch_loop(st, user_id, items, i, acc) ==
    IF i > Len(items) THEN [ st |-> st, acc |-> acc ]
    ELSE Only(UNION {
           { batch_loop(it.st, user_id, items, i + 1, acc2) :
               acc2 \in { Reported(acc, it, i, st, user_id, items[i]) } } :
           it \in { BatchItem(st, user_id, items[i].body, items[i].env) } })

\* batch_capture: the store after the request and the BatchCaptureResponse
batch_capture(st, user_id, items) ==
    Only({ [ st |-> out.st,
             rsp |-> [ called |-> TRUE, user_id |-> user_id, n |-> Len(items),
                       successful |-> out.acc.successful,
                       failed |-> out.acc.failed,
                       count |-> Len(out.acc.successful),
                       handed |-> out.acc.handed, single |-> out.acc.single,
                       pre_signals |-> Len(st.sig) ] ] :
           out \in { batch_loop(st, user_id, items, 1,
                                [ successful |-> << >>, failed |-> << >>,
                                  handed |-> << >>, single |-> << >> ]) } })

\* POST /artifacts/batch
BatchCapture(user_id, items) ==
    /\ Len(signal) + Len(items) <= MaxBatch
    /\ \E out \in { batch_capture(Store, user_id, items) } :
           /\ subspace' = out.st.sub
           /\ artifact' = out.st.art
           /\ signal' = out.st.sig
           /\ webhook_event' = out.st.ev
           /\ delivery_tasks' = out.st.tasks
           /\ bres' = out.rsp
    /\ UNCHANGED << marker, subspace_marker, config, mcall, last, extVarsBase, esvc,
                    subsVars >>

\* the items of a batch: a capture with its own embedding, one that needs
\* the embedding service (which works or raises), one with neither
\* embedding nor text, one the command rejects, and one the store fails on
BatchItemOf(space_id, url, embedding, has_text, embed, store_ok) ==
    [ body |-> Body(space_id, url, embedding, has_text, ZeroScores, "latent",
                    None, None, TRUE),
      env |-> [ CalmEnv EXCEPT !.embed = embed, !.store_ok = store_ok ] ]

BatchItems ==
    { BatchItemOf(1, "a", Some(Vec(0)), FALSE, Some(Vec(1)), TRUE),
      BatchItemOf(1, "b", None, TRUE, Some(Vec(1)), TRUE),
      BatchItemOf(1, "b", None, TRUE, None, TRUE),
      BatchItemOf(1, "a", None, FALSE, Some(Vec(1)), TRUE),
      BatchItemOf(1, "", Some(Vec(0)), FALSE, Some(Vec(1)), TRUE),
      BatchItemOf(1, "a", Some(Vec(0)), FALSE, Some(Vec(1)), FALSE) }

Batches == UNION { [ 1 .. n -> BatchItems ] : n \in 0 .. MaxBatch }

NextBatch == \E items \in Batches : BatchCapture("u1", items)

SpecBatch == InitIngest /\ [][NextBatch]_vars

C25_BatchMatchesSingle ==
    bres.called =>
        \A i \in DOMAIN bres.handed :
            IsSome(bres.handed[i]) /\ IsSome(bres.single[i])
                => bres.handed[i] = bres.single[i]

\* ------------------------------------------- subspaces: delete and merge
MaxCaptures == 2

\* a table without the row of id
Without(tbl, id) == [ k \in DOMAIN tbl \ { id } |-> tbl[k] ]

SubspaceFound(sub, space_id, subspace_id, user_id) ==
    /\ subspace_id \in DOMAIN sub
    /\ sub[subspace_id].space_id = space_id
    /\ sub[subspace_id].user_id = user_id

\* DELETE /spaces/{space_id}/subspaces/{subspace_id}: `.delete()` on the
\* rows of that id, space and user; 404 when none was deleted
delete_subspace(sub, space_id, subspace_id, user_id) ==
    IF SubspaceFound(sub, space_id, subspace_id, user_id)
    THEN [ sub |-> Without(sub, subspace_id), status |-> 200, deleted |-> TRUE ]
    ELSE [ sub |-> sub, status |-> 404, deleted |-> FALSE ]

\* SpaceRepository.delete: `.delete()` on the rows of that id and user; True
\* when a row was deleted
delete(spc, space_id, user_id) ==
    IF space_id \in DOMAIN spc /\ spc[space_id].user_id = user_id
    THEN [ space |-> Without(spc, space_id), deleted |-> TRUE ]
    ELSE [ space |-> spc, deleted |-> FALSE ]

subsFrame == << marker, webhook_event, delivery_tasks, config, mcall, last,
                extVarsBase, esvc, bres >>

DeleteSubspace(space_id, subspace_id, user_id) ==
    /\ \E out \in { delete_subspace(subspace, space_id, subspace_id, user_id) } :
           /\ subspace' = out.sub
           /\ dres' = [ called |-> TRUE, kind |-> "subspace", id |-> subspace_id,
                        deleted |-> out.deleted, status |-> out.status ]
    /\ UNCHANGED << artifact, signal, subspace_marker, space, mrg, pend, subsFrame >>

DeleteSpace(space_id, user_id) ==
    /\ \E out \in { delete(space, space_id, user_id) } :
           /\ space' = out.space
           /\ dres' = [ called |-> TRUE, kind |-> "space", id |-> space_id,
                        deleted |-> out.deleted,
                        status |-> IF out.deleted THEN 200 ELSE 404 ]
    /\ UNCHANGED << subspace, artifact, signal, subspace_marker, mrg, pend,
                    subsFrame >>

\* merge_subspace up to the first write: 400 for a merge into itself, 404
\* unless both subspaces are the user's in that space
MergeStart(space_id, subspace_id, target_subspace_id, user_id) ==
    /\ mrg.pc \in { "idle", "done" }
    /\ LET req == [ pc |-> "move_artifacts", status |-> 0, space_id |-> space_id,
                    source |-> subspace_id, target |-> target_subspace_id,
                    user_id |-> user_id ]
       IN  mrg' = IF target_subspace_id = subspace_id
                  THEN [ req EXCEPT !.pc = "done", !.status = 400 ]
                  ELSE IF ~ SubspaceFound(subspace, space_id, subspace_id, user_id)
                          \/ ~ SubspaceFound(subspace, space_id,
                                             target_subspace_id, user_id)
                  THEN [ req EXCEPT !.pc = "done", !.status = 404 ]
                  ELSE req
    /\ UNCHANGED << subspace, artifact, signal, subspace_marker, space, dres, pend,
                    subsFrame >>

\* the rows of a table of that space and user in the source subspace
InSource(rows, m) ==
    { i \in DOMAIN rows : /\ rows[i].space_id = m.space_id
                          /\ rows[i].user_id = m.user_id
                          /\ rows[i].subspace_id = Some(m.source) }

MoveRows(rows, m) ==
    [ i \in DOMAIN rows |-> IF i \in InSource(rows, m)
                            THEN [ rows[i] EXCEPT !.subspace_id = Some(m.target) ]
                            ELSE rows[i] ]

\* the update of misir.artifact
MoveArtifacts ==
    /\ mrg.pc = "move_artifacts"
    /\ artifact' = MoveRows(artifact, mrg)
    /\ mrg' = [ mrg EXCEPT !.pc = "move_signals" ]
    /\ UNCHANGED << subspace, signal, subspace_marker, space, dres, pend, subsFrame >>

\* the update of misir.signal
MoveSignals ==
    /\ mrg.pc = "move_signals"
    /\ signal' = MoveRows(signal, mrg)
    /\ mrg' = [ mrg EXCEPT !.pc = "merge_markers" ]
    /\ UNCHANGED << subspace, artifact, subspace_marker, space, dres, pend,
                    subsFrame >>

\* the links of the source, upserted on (subspace_id, marker_id) as links of
\* the target
MergeMarkers ==
    /\ mrg.pc = "merge_markers"
    /\ LET source_markers == { l \in subspace_marker : l.subspace_id = mrg.source }
           upserts == { [ l EXCEPT !.subspace_id = mrg.target ] : l \in source_markers }
           kept == { l \in subspace_marker :
                       ~ \E u \in upserts : /\ u.subspace_id = l.subspace_id
                                            /\ u.marker_id = l.marker_id }
       IN  subspace_marker' = kept \cup upserts
    /\ mrg' = [ mrg EXCEPT !.pc = "delete_source" ]
    /\ UNCHANGED << subspace, artifact, signal, space, dres, pend, subsFrame >>

\* the delete of the source subspace; 500 when no row was deleted
DeleteSource ==
    /\ mrg.pc = "delete_source"
    /\ \E out \in { delete_subspace(subspace, mrg.space_id, mrg.source, mrg.user_id) } :
           /\ subspace' = out.sub
           /\ mrg' = IF out.deleted
                     THEN [ mrg EXCEPT !.pc = "refresh" ]
                     ELSE [ mrg EXCEPT !.pc = "done", !.status = 500 ]
    /\ UNCHANGED << artifact, signal, subspace_marker, space, dres, pend, subsFrame >>

\* the artifact_count of the target is refreshed and the merge returns
MergeReturn ==
    /\ mrg.pc = "refresh"
    /\ mrg' = [ mrg EXCEPT !.pc = "done", !.status = 200 ]
    /\ UNCHANGED << subspace, artifact, signal, subspace_marker, space, dres, pend,
                    subsFrame >>

\* ArtifactRepository.ingest_with_signal up to the return of the RPC, for a
\* capture of u1 into a subspace of space 1
CaptureRpc(url, subspace_id, store_ok) ==
    /\ IsNone(pend)
    /\ Len(signal) < Len(SeededStore.sig) + MaxCaptures
    /\ LET params == SeedParams("u1", 1, url, 0, Some(subspace_id))
           rpc == insert_artifact_with_signal(artifact, signal, subspace, params)
       IN  IF ~ store_ok \/ RpcRejects(subspace, params)
           THEN UNCHANGED << artifact, signal, pend >>
           ELSE /\ artifact' = rpc.art
                /\ signal' = rpc.sig
                /\ pend' = Some([ artifact_id |-> rpc.row.artifact_id,
                                  user_id |-> "u1", subspace_id |-> Some(subspace_id) ])
    /\ UNCHANGED << subspace, subspace_marker, space, dres, mrg, subsFrame >>

\* the rest of ingest_with_signal: the best-effort backfill
CaptureBackfill(ok) ==
    /\ IsSome(pend)
    /\ artifact' = _backfill_assignment_fields(artifact, Get(pend).artifact_id,
                       Get(pend).user_id, Get(pend).subspace_id, {}, ok)
    /\ pend' = None
    /\ UNCHANGED << subspace, signal, subspace_marker, space, dres, mrg, subsFrame >>

InitSubspaces == InitSearch

NextSubspaces ==
    \/ \E sp \in { 1, 2 }, s \in SubspaceIds, u \in Users : DeleteSubspace(sp, s, u)
    \/ \E sp \in SpaceIds, u \in Users : DeleteSpace(sp, u)
    \/ \E s \in SubspaceIds, t \in SubspaceIds : MergeStart(1, s, t, "u1")
    \/ MoveArtifacts
    \/ MoveSignals
    \/ MergeMarkers
    \/ DeleteSource
    \/ MergeReturn
    \/ \E url \in { "a", "c" }, s \in SubspaceIds, ok \in BOOLEAN : CaptureRpc(url, s, ok)
    \/ \E ok \in BOOLEAN : CaptureBackfill(ok)

SpecSubspaces == InitSubspaces /\ [][NextSubspaces]_vars

\* C23: a subspace or a space that was deleted is retained in its table
\* (marked deleted), not physically removed.
C23_SoftDelete ==
    dres.called /\ dres.deleted =>
        IF dres.kind = "subspace" THEN dres.id \in DOMAIN subspace
                                  ELSE dres.id \in DOMAIN space

\* C30: once a merge has returned success, no artifact and no signal of that
\* user and space is in the source subspace.
C30_NoReferenceToSource ==
    mrg.pc = "done" /\ mrg.status = 200 =>
        /\ InSource(artifact, mrg) = {}
        /\ InSource(signal, mrg) = {}

\* ------------------------------------------------------- artifact updates
\* ArtifactRepository.update_artifact: the fields given are written as given
\* to the live row of that id and user; Ok(False) when no field is given or
\* no row matched
update_artifact(art, cmd, ok) ==
    LET nothing == IsNone(cmd.engagement_level) /\ ~ cmd.other_fields
        matched == /\ cmd.artifact_id \in DOMAIN art
                   /\ art[cmd.artifact_id].user_id = cmd.user_id
                   /\ ~ art[cmd.artifact_id].deleted
    IN  IF nothing THEN [ art |-> art, ok |-> TRUE, updated |-> FALSE ]
        ELSE IF ~ ok THEN [ art |-> art, ok |-> FALSE, updated |-> FALSE ]
        ELSE IF ~ matched THEN [ art |-> art, ok |-> TRUE, updated |-> FALSE ]
        ELSE [ art |-> IF IsSome(cmd.engagement_level)
                       THEN [ art EXCEPT ![cmd.artifact_id].engagement_level =
                                             Get(cmd.engagement_level) ]
                       ELSE art,
               ok |-> TRUE, updated |-> TRUE ]

\* PATCH /artifacts/{artifact_id}
UpdateArtifact(cmd, ok) ==
    /\ artifact' = update_artifact(artifact, cmd, ok).art
    /\ UNCHANGED << subspace, marker, subspace_marker, signal, webhook_event,
                    delivery_tasks, config, mcall, last, extVars >>

UpdateArtifactCommands ==
    [ artifact_id : 1 .. MaxSignals, user_id : Users,
      engagement_level : { None } \cup { Some(l) : l \in EngagementLevels },
      other_fields : BOOLEAN ]

NextEngagement ==
    \/ NextIngest
    \/ \E cmd \in UpdateArtifactCommands, ok \in BOOLEAN : UpdateArtifact(cmd, ok)

SpecEngagement == InitIngest /\ [][NextEngagement]_vars

\* C29: no step lowers the stored engagement_level of a live artifact.
C29_EngagementNeverLowered ==
    [][ \A i \in DOMAIN artifact :
            ~ artifact[i].deleted
                => ~ LevelGt(artifact[i].engagement_level,
                             artifact'[i].engagement_level) ]_vars

====
